---------------------------- MODULE Spec2Model ----------------------------
(***************************************************************************)
(* Model of the urban-mobility backend: the cleaning pipeline of           *)
(* DataProcessor (clean_data, calculate_derived_features) and the two      *)
(* loaders that normalise a cleaned batch into the vendors / zones / trips *)
(* tables (DataProcessor.save_to_database and setup.insert_cleaned_csv).   *)
(*                                                                         *)
(* Units.  Coordinates are integers in 1e-4 degree, distances in metres,   *)
(* speeds in 1e-3 km/h, money in cents, durations in seconds.  A raw       *)
(* timestamp is the integer HHMMSS of its clock text, a parsed timestamp   *)
(* is seconds since midnight.                                              *)
(***************************************************************************)
EXTENDS Integers, Sequences, FiniteSets, TLC

VARIABLES
    raw,               \* the batch handed to clean_data (kept for reference)
    df,                \* the DataFrame the cleaning run is working on
    excluded_records,  \* DataProcessor.excluded_records (the ledger)
    stage,             \* position of the cleaning run
    db,                \* committed contents of the store
    tx,                \* what the open connection sees (db + its own writes)
    seq,               \* the zones.id SERIAL sequence (never rolled back)
    batch,             \* the DataFrame of the running load call
    loader,            \* which loader runs: "processor" or "setup"
    lpc,               \* position of the load call
    vtodo,             \* vendor ids still to write (in order)
    ztodo,             \* zone names still to write
    pos,               \* number of trip rows already executed
    loads,             \* number of load calls started
    hist,              \* bookkeeping about the running load call
    csv_file,          \* train.csv: readable or not, and its rows
    cleaned_file,      \* cleaned_dataset.csv: there or not, and its rows
    ledger_file,       \* excluded_records.txt: there or not, and its ids
    call,              \* the top-level call in progress or just ended
    procs,             \* the DataProcessor instances constructed so far
    heap,              \* the list objects the instances' ledgers refer to
    response,          \* the API's answer to the latest request
    session            \* the locals of a process_data_interactive call

cleanVars == <<raw, df, excluded_records, stage>>
loadVars  == <<db, tx, seq, batch, loader, lpc, vtodo, ztodo, pos, loads, hist>>
fileVars  == <<csv_file, cleaned_file, ledger_file, call>>
instVars  == <<procs, heap>>
apiVars   == <<response>>
interVars == <<session>>
vars      == <<raw, df, excluded_records, stage,
               db, tx, seq, batch, loader, lpc, vtodo, ztodo, pos, loads, hist,
               csv_file, cleaned_file, ledger_file, call, procs, heap, response,
               session>>

---------------------------------------------------------------------------
(* Missing values and float specials.                                      *)

\* A missing cell (NaN / NaT / None) of a DataFrame.
NaN == -999999999
\* The float +inf a division by zero yields in numpy.
Inf == 999999999

IsNa(x) == x = NaN

\* IEEE comparisons: every comparison with NaN is False.
Lt(a, b) == ~IsNa(a) /\ ~IsNa(b) /\ a < b
Gt(a, b) == ~IsNa(a) /\ ~IsNa(b) /\ a > b
Le(a, b) == ~IsNa(a) /\ ~IsNa(b) /\ a <= b

\* Rows of df (in order) whose position satisfies mask: df[mask].
RECURSIVE Keep(_, _)
Keep(d, mask) ==
    IF d = <<>> THEN <<>>
    ELSE LET rest == Keep(Tail(d), [i \in 1..(Len(d) - 1) |-> mask[i + 1]])
         IN IF mask[1] THEN <<Head(d)>> \o rest ELSE rest

\* df[col].tolist()
Ids(d) == [i \in 1..Len(d) |-> d[i].id]

---------------------------------------------------------------------------
(* clean_data                                                               *)

lat_min == 404774
lat_max == 409176
lon_min == -742591
lon_max == -737004

max_duration == 21600
min_duration == 60
min_passengers == 1
max_passengers == 6

\* Faulty variant: no deduplication.
DropDuplicatesNot(d) == d
\* df.drop_duplicates(subset=['id']): the first row of every id is kept.
DropDuplicates(d) ==
    Keep(d, [i \in 1..Len(d) |-> \A j \in 1..(i - 1) : d[j].id # d[i].id])

\* df.dropna(subset=[the two timestamps and the four coordinates])
HasMissing(r) ==
    \/ IsNa(r.pickup_datetime)  \/ IsNa(r.dropoff_datetime)
    \/ IsNa(r.pickup_latitude)  \/ IsNa(r.pickup_longitude)
    \/ IsNa(r.dropoff_latitude) \/ IsNa(r.dropoff_longitude)
DropNa(d) == Keep(d, [i \in 1..Len(d) |-> ~HasMissing(d[i])])

\* pd.to_datetime on one cell: HHMMSS clock text to seconds; a text that is
\* no time of day does not parse.
Parses(t) ==
    t >= 0 /\ (t \div 10000) < 24 /\ ((t \div 100) % 100) < 60 /\ (t % 100) < 60
ToDatetime(t) == (t \div 10000) * 3600 + ((t \div 100) % 100) * 60 + (t % 100)
DatetimesParse(d) ==
    \A i \in 1..Len(d) : Parses(d[i].pickup_datetime) /\ Parses(d[i].dropoff_datetime)
ConvertDatetimes(d) ==
    [i \in 1..Len(d) |->
        [d[i] EXCEPT !.pickup_datetime  = ToDatetime(@),
                     !.dropoff_datetime = ToDatetime(@),
                     !.datetime_dtype   = "datetime64"]]

\* Faulty variant: a dropoff at the very time of the pickup is let through.
invalid_datetime_strict(r) == Lt(r.dropoff_datetime, r.pickup_datetime)
invalid_datetime(r) == Le(r.dropoff_datetime, r.pickup_datetime)

invalid_coords(r) ==
    \/ Lt(r.pickup_latitude, lat_min)   \/ Gt(r.pickup_latitude, lat_max)
    \/ Lt(r.pickup_longitude, lon_min)  \/ Gt(r.pickup_longitude, lon_max)
    \/ Lt(r.dropoff_latitude, lat_min)  \/ Gt(r.dropoff_latitude, lat_max)
    \/ Lt(r.dropoff_longitude, lon_min) \/ Gt(r.dropoff_longitude, lon_max)

invalid_duration(r) ==
    Gt(r.trip_duration, max_duration) \/ Lt(r.trip_duration, min_duration)

invalid_passengers(r) ==
    Lt(r.passenger_count, min_passengers) \/ Gt(r.passenger_count, max_passengers)

\* One "mask; ledger.extend(df[mask]['id'].tolist()); df = df[~mask]" step,
\* on the pair <<df, ledger>>; bad[i] is the mask's value on row i.
\* Faulty variant: the ids are recorded and the rows stay in df.
ExcludeKeepRows(s, bad) == << s[1], s[2] \o Ids(Keep(s[1], bad)) >>
Exclude(s, bad) ==
    << Keep(s[1], [i \in 1..Len(s[1]) |-> ~bad[i]]),
       s[2] \o Ids(Keep(s[1], bad)) >>

DatetimeMask(d)  == [i \in 1..Len(d) |-> invalid_datetime(d[i])]
CoordsMask(d)    == [i \in 1..Len(d) |-> invalid_coords(d[i])]
PassengerMask(d) == [i \in 1..Len(d) |-> invalid_passengers(d[i])]

\* Faulty variant: the duration mask is computed on a frame that is one row
\* out of step with df.
DurationMaskShifted(d) ==
    [i \in 1..Len(d) |-> invalid_duration(d[IF i > 1 THEN i - 1 ELSE i])]
DurationMask(d)  == [i \in 1..Len(d) |-> invalid_duration(d[i])]

\* The four validity filters of clean_data in source order, on <<df, ledger>>.
ValidityFilters(s) ==
    LET s1 == Exclude(s,  DatetimeMask(s[1]))
        s2 == Exclude(s1, CoordsMask(s1[1]))
        s3 == Exclude(s2, DurationMask(s2[1]))
    IN  Exclude(s3, PassengerMask(s3[1]))

\* The rows that reach pd.to_datetime: duplicates and rows with a missing
\* required cell are dropped, and nothing is written to the ledger for them.
Deduped(d) == DropNa(DropDuplicates(d))

\* clean_data(df) from ledger led: <<ok, df, ledger>>; ok is FALSE when
\* pd.to_datetime raises (nothing was appended to the ledger yet).
clean_data(d, led) ==
    IF ~DatetimesParse(Deduped(d)) THEN <<FALSE, d, led>>
    ELSE LET s == ValidityFilters(<<ConvertDatetimes(Deduped(d)), led>>)
         IN  <<TRUE, s[1], s[2]>>

---------------------------------------------------------------------------
(* calculate_derived_features                                              *)

\* The three locations the batches use (1e-4 degree), and three outside the
\* bounding box.
P1 == <<407128, -740060>>
P2 == <<407589, -739851>>
P3 == <<408500, -738000>>
Q1 == <<410000, -740060>>
Q2 == <<407128, -730000>>
Q3 == <<404000, -739851>>

\* haversine_distance with R = 6371 km, in metres, tabulated from the source's
\* formula on the locations of the model.
HaversineM(lat1, lon1, lat2, lon2) ==
    LET a == <<lat1, lon1>>
        b == <<lat2, lon2>>
    IN  CASE a = b                          -> 0
          [] {a, b} = {P1, P2}              -> 5420
          [] {a, b} = {P1, P3}              -> 23099
          [] {a, b} = {P2, P3}              -> 18583
          [] {a, b} = {Q1, P2}              -> 26867
          [] {a, b} = {Q2, P2}              -> 83158
          [] {a, b} = {P1, Q3}              -> 34827

haversine_distance(lat1, lon1, lat2, lon2) ==
    IF IsNa(lat1) \/ IsNa(lon1) \/ IsNa(lat2) \/ IsNa(lon2) THEN NaN
    ELSE HaversineM(lat1, lon1, lat2, lon2)

\* n / d rounded to the nearest integer, ties to even (numpy's round), n >= 0.
RoundDiv(n, d) ==
    LET q == n \div d
        r == n % d
    IN  IF 2 * r < d THEN q
        ELSE IF 2 * r > d THEN q + 1
        ELSE IF q % 2 = 0 THEN q ELSE q + 1

\* trip_distance_km / (trip_duration / 3600), in 1e-3 km/h.
trip_speed(dist, dur) ==
    IF IsNa(dist) \/ IsNa(dur) THEN NaN
    ELSE IF dur = 0 THEN (IF dist = 0 THEN NaN ELSE Inf)
    ELSE (dist * 3600) \div dur

min_speed_kmh == 1
max_speed_kmh == 200
invalid_speed(r) ==
    Gt(r.trip_speed_kmh, max_speed_kmh * 1000) \/ Lt(r.trip_speed_kmh, min_speed_kmh * 1000)
SpeedMask(d) == [i \in 1..Len(d) |-> invalid_speed(d[i])]

\* (2.50 + km * 1.50 + duration / 60 * 0.50).round(2), in cents.
fare_amount(dist, dur) ==
    IF IsNa(dist) \/ IsNa(dur) THEN NaN
    ELSE RoundDiv(250 * 60 + 9 * dist + 50 * dur, 60)

\* (fare_amount / trip_distance_km).round(2), in cents per km; numpy divides
\* by zero without raising.
fare_per_km(fare, dist) ==
    IF IsNa(fare) \/ IsNa(dist) THEN NaN
    ELSE IF dist = 0 THEN (IF fare = 0 THEN NaN ELSE Inf)
    ELSE RoundDiv(fare * 1000, dist)

WithDistanceSpeed(d) ==
    [i \in 1..Len(d) |->
        LET km == haversine_distance(d[i].pickup_latitude, d[i].pickup_longitude,
                                     d[i].dropoff_latitude, d[i].dropoff_longitude)
        IN  [d[i] EXCEPT !.trip_distance_km = km,
                         !.trip_speed_kmh   = trip_speed(km, d[i].trip_duration)]]

\* Faulty variant: the fare of every row from the distance and duration of
\* the first row.
WithFareOfFirstRow(d) ==
    [i \in 1..Len(d) |->
        LET f == fare_amount(d[1].trip_distance_km, d[1].trip_duration)
        IN  [d[i] EXCEPT !.fare_amount = f,
                         !.fare_per_km = fare_per_km(f, d[i].trip_distance_km)]]
WithFare(d) ==
    [i \in 1..Len(d) |->
        LET f == fare_amount(d[i].trip_distance_km, d[i].trip_duration)
        IN  [d[i] EXCEPT !.fare_amount = f,
                         !.fare_per_km = fare_per_km(f, d[i].trip_distance_km)]]

\* pd.cut(x, bins=20, labels=False) on one value of a series whose minimum
\* and maximum are mn and mx: 20 equal-width right-closed bins over [mn, mx],
\* the first one widened to the left so that it holds mn.  A series of one
\* distinct value gets the range widened on both sides, the value in the
\* middle.
bins == 20
Min(S) == CHOOSE x \in S : \A y \in S : x <= y
Max(S) == CHOOSE x \in S : \A y \in S : x >= y
CutBin(x, mn, mx) ==
    IF mn = mx THEN (bins \div 2) - 1
    ELSE IF x = mn THEN 0
    ELSE (((x - mn) * bins + (mx - mn) - 1) \div (mx - mn)) - 1

\* The label "Zone_<lat bin>_<lon bin>", written as lat bin * 100 + lon bin.
ZoneLabel(latbin, lonbin) == latbin * 100 + lonbin

\* create_zones(latitudes, longitudes): one label per row.
\* Faulty variant: the bins are cut over the fixed bounding box.
create_zones_of_box(lats, lons) ==
    [i \in 1..Len(lats) |->
        ZoneLabel(CutBin(lats[i], lat_min, lat_max), CutBin(lons[i], lon_min, lon_max))]
create_zones(lats, lons) ==
    LET latS == {lats[i] : i \in 1..Len(lats)}
        lonS == {lons[i] : i \in 1..Len(lons)}
    IN  [i \in 1..Len(lats) |->
            ZoneLabel(CutBin(lats[i], Min(latS), Max(latS)),
                      CutBin(lons[i], Min(lonS), Max(lonS)))]

WithZones(d) ==
    LET pz == create_zones([i \in 1..Len(d) |-> d[i].pickup_latitude],
                           [i \in 1..Len(d) |-> d[i].pickup_longitude])
        dz == create_zones([i \in 1..Len(d) |-> d[i].dropoff_latitude],
                           [i \in 1..Len(d) |-> d[i].dropoff_longitude])
    IN  [i \in 1..Len(d) |-> [d[i] EXCEPT !.pickup_zone = pz[i], !.dropoff_zone = dz[i]]]

\* calculate_derived_features(df) from ledger led: <<ok, df, ledger>>.  The
\* speed filter has written to the ledger before pd.cut raises on an empty
\* series ("Cannot cut empty array").
\* Faulty variant: the zones are cut before the speed filter.
calculate_derived_features_zones_first(d, led) ==
    LET w == WithZones(WithDistanceSpeed(d))
        s == Exclude(<<w, led>>, SpeedMask(w))
    IN  IF d = <<>> THEN <<FALSE, d, led>>
        ELSE <<TRUE, WithFare(s[1]), s[2]>>
calculate_derived_features(d, led) ==
    LET s == Exclude(<<WithDistanceSpeed(d), led>>, SpeedMask(WithDistanceSpeed(d)))
    IN  IF s[1] = <<>> THEN <<FALSE, d, s[2]>>
        ELSE <<TRUE, WithZones(WithFare(s[1])), s[2]>>

---------------------------------------------------------------------------
(* The raw batches of the model.                                           *)

MaxRaw == 2

\* A well-formed raw record: 00:10:00 to 00:20:00, P1 to P2, 600 s; read_csv
\* leaves the two datetime columns as text (dtype object).
BaseRecord(id) ==
    [index |-> 0, id |-> id, vendor_id |-> 1,
     datetime_dtype |-> "object",
     pickup_datetime |-> 1000, dropoff_datetime |-> 2000,
     passenger_count |-> 1,
     pickup_latitude |-> P1[1], pickup_longitude |-> P1[2],
     dropoff_latitude |-> P2[1], dropoff_longitude |-> P2[2],
     trip_duration |-> 600,
     trip_distance_km |-> NaN, trip_speed_kmh |-> NaN,
     fare_amount |-> NaN, fare_per_km |-> NaN,
     pickup_zone |-> NaN, dropoff_zone |-> NaN]

\* The base record and every record that departs from it in one attribute.
Variants(b) ==
    {b}
    \cup {[b EXCEPT !.vendor_id = v] : v \in {2, NaN}}
    \cup {[b EXCEPT !.pickup_datetime = t] : t \in {NaN, 9999}}
    \cup {[b EXCEPT !.dropoff_datetime = t] : t \in {NaN, 500, 1000}}
    \cup {[b EXCEPT !.pickup_latitude = p[1], !.pickup_longitude = p[2]] :
            p \in {P3, <<NaN, P1[2]>>, Q1, Q2}}
    \cup {[b EXCEPT !.dropoff_latitude = p[1], !.dropoff_longitude = p[2]] :
            p \in {P1, P3, <<P2[1], NaN>>, Q3}}
    \cup {[b EXCEPT !.trip_duration = t] : t \in {NaN, 59, 60, 21600, 21601}}
    \cup {[b EXCEPT !.passenger_count = n] : n \in {NaN, 0, 6, 7}}

RawIds == {1, 2}
RawRecords == UNION {Variants(BaseRecord(id)) : id \in RawIds}
\* read_csv numbers the rows 0, 1, ...: the DataFrame index.
Indexed(rows) == [i \in 1..Len(rows) |-> [rows[i] EXCEPT !.index = i - 1]]
RawBatches == {Indexed(rows) : rows \in UNION {[1..n -> RawRecords] : n \in 0..MaxRaw}}

\* Batches for the derived features: records that differ in their points
\* and durations, among them one that ends where it starts, with and
\* without a trip_duration.
MaxFeatureRows == 2
FeatureVariants(b) ==
    {b}
    \cup {[b EXCEPT !.pickup_latitude = P3[1], !.pickup_longitude = P3[2]]}
    \cup {[b EXCEPT !.dropoff_latitude = p[1], !.dropoff_longitude = p[2]] : p \in {P1, P3}}
    \cup {[b EXCEPT !.trip_duration = t] : t \in {NaN, 60, 1200, 21600}}
    \cup {[b EXCEPT !.dropoff_latitude = P1[1], !.dropoff_longitude = P1[2],
                    !.trip_duration = NaN]}
FeatureRecords == UNION {FeatureVariants(BaseRecord(id)) : id \in 1..MaxFeatureRows}
FeatureBatches ==
    {Indexed(rows) : rows \in UNION {[1..n -> FeatureRecords] : n \in 0..MaxFeatureRows}}

\* Batches in which every validator filter has a row to drop: a row of each
\* kind, under two ids.
MaxOrderRows == 2
OrderVariants(b) ==
    {b}
    \cup {[b EXCEPT !.pickup_datetime = NaN]}
    \cup {[b EXCEPT !.dropoff_datetime = 500]}
    \cup {[b EXCEPT !.pickup_latitude = Q1[1]]}
    \cup {[b EXCEPT !.trip_duration = t] : t \in {NaN, 59}}
    \cup {[b EXCEPT !.passenger_count = 7]}
OrderRecords == UNION {OrderVariants(BaseRecord(id)) : id \in RawIds}
OrderBatches ==
    {Indexed(rows) : rows \in UNION {[1..n -> OrderRecords] : n \in 0..MaxOrderRows}}

\* Batches of up to three rows under three ids, in the order of their ids:
\* rows that pass, rows that fail one filter, and a row with a missing cell.
MaxValidatorRows == 3
ValidatorVariants(b) ==
    {b}
    \cup {[b EXCEPT !.dropoff_datetime = t] : t \in {500, 1000}}
    \cup {[b EXCEPT !.pickup_latitude = Q1[1]]}
    \cup {[b EXCEPT !.trip_duration = 59]}
    \cup {[b EXCEPT !.passenger_count = 7]}
    \cup {[b EXCEPT !.pickup_datetime = NaN]}
ValidatorRecords ==
    UNION {ValidatorVariants(BaseRecord(id)) : id \in 1..MaxValidatorRows}
ValidatorBatches ==
    {Indexed(rows) :
        rows \in {q \in UNION {[1..n -> ValidatorRecords] : n \in 0..MaxValidatorRows} :
                    \A i, j \in 1..Len(q) : i < j => q[i].id <= q[j].id}}

---------------------------------------------------------------------------
(* The cleaning run as a state machine.                                    *)

CleanData ==
    /\ stage = "raw"
    /\ LET res == clean_data(df, excluded_records)
       IN  /\ stage' = IF res[1] THEN "cleaned" ELSE "error"
           /\ df' = res[2]
           /\ excluded_records' = res[3]
    /\ UNCHANGED raw

CalculateDerivedFeatures ==
    /\ stage = "cleaned"
    /\ LET res == calculate_derived_features(df, excluded_records)
       IN  /\ stage' = IF res[1] THEN "derived" ELSE "error"
           /\ df' = res[2]
           /\ excluded_records' = res[3]
    /\ UNCHANGED raw

---------------------------------------------------------------------------
(* The store: vendors, zones and trips of database.init_db.                *)

EmptyStore == [vendors |-> {}, zones |-> {}, trips |-> {}]

\* f"Vendor_{vendor_id}": the digits of the id, and whether they are those
\* of a float ("Vendor_1.0").
VendorName(v, asFloat) == <<"Vendor_", v, asFloat>>

\* A vendor_id column read with a missing cell is a float column.
FloatColumn(b) == \E i \in 1..Len(b) : IsNa(b[i].vendor_id)

\* df[col].dropna().unique(): the values in order of first appearance.
RECURSIVE Unique(_)
Unique(xs) ==
    IF xs = <<>> THEN <<>>
    ELSE LET init == Unique(SubSeq(xs, 1, Len(xs) - 1))
             x    == xs[Len(xs)]
         IN  IF IsNa(x) \/ \E i \in 1..Len(init) : init[i] = x THEN init
             ELSE Append(init, x)

unique_vendors(b) == Unique([i \in 1..Len(b) |-> b[i].vendor_id])

all_zones(b) ==
    ({b[i].pickup_zone : i \in 1..Len(b)} \cup {b[i].dropoff_zone : i \in 1..Len(b)})
        \ {NaN}

\* INSERT INTO vendors ... ON CONFLICT (vendor_id) DO NOTHING
\* Faulty variant: the existing vendor row is replaced.
InsertVendorReplace(vendors, v, name) ==
    {x \in vendors : x.vendor_id # v} \cup {[vendor_id |-> v, vendor_name |-> name]}
InsertVendorRow(vendors, v, name) ==
    IF \E x \in vendors : x.vendor_id = v THEN vendors
    ELSE vendors \cup {[vendor_id |-> v, vendor_name |-> name]}

\* sum / n as a DECIMAL(10, 7) column holds it: 1e-7 degree from 1e-4 degree.
Decimal7(sum, n) == 1000 * (sum \div n) + RoundDiv((sum % n) * 1000, n)

RECURSIVE SumSeq(_)
SumSeq(xs) == IF xs = <<>> THEN 0 ELSE Head(xs) + SumSeq(Tail(xs))

\* zone_trips = df[(pickup_zone == z) | (dropoff_zone == z)]
zone_trips(b, z) ==
    Keep(b, [i \in 1..Len(b) |-> b[i].pickup_zone = z \/ b[i].dropoff_zone = z])

\* zone_trips[[pickup, dropoff]].values.mean(): the mean over both columns of
\* every row of zone_trips.
avg_lat(b, z) ==
    LET t == zone_trips(b, z)
    IN  Decimal7(SumSeq([i \in 1..Len(t) |-> t[i].pickup_latitude + t[i].dropoff_latitude]),
                 2 * Len(t))
avg_lon(b, z) ==
    LET t == zone_trips(b, z)
    IN  Decimal7(SumSeq([i \in 1..Len(t) |-> t[i].pickup_longitude + t[i].dropoff_longitude]),
                 2 * Len(t))
trip_count(b, z) == Len(zone_trips(b, z))

\* INSERT INTO zones ... ON CONFLICT (zone_name) DO UPDATE SET latitude,
\* longitude, trip_count = EXCLUDED.*; id is the SERIAL value nextid on insert.
\* Faulty variants: trip_count is added up; the existing row is kept as it
\* is (DO NOTHING); the existing row is replaced by a new one with a new id.
UpsertZoneAccumulate(zones, nextid, z, lat, lon, cnt) ==
    IF \E x \in zones : x.zone_name = z
    THEN {IF x.zone_name = z
          THEN [x EXCEPT !.latitude = lat, !.longitude = lon, !.trip_count = @ + cnt]
          ELSE x : x \in zones}
    ELSE zones \cup {[id |-> nextid, zone_name |-> z,
                      latitude |-> lat, longitude |-> lon, trip_count |-> cnt]}
UpsertZoneKeepOld(zones, nextid, z, lat, lon, cnt) ==
    IF \E x \in zones : x.zone_name = z THEN zones
    ELSE zones \cup {[id |-> nextid, zone_name |-> z,
                      latitude |-> lat, longitude |-> lon, trip_count |-> cnt]}
UpsertZoneNewId(zones, nextid, z, lat, lon, cnt) ==
    {x \in zones : x.zone_name # z}
        \cup {[id |-> nextid, zone_name |-> z,
               latitude |-> lat, longitude |-> lon, trip_count |-> cnt]}
UpsertZoneRow(zones, nextid, z, lat, lon, cnt) ==
    IF \E x \in zones : x.zone_name = z
    THEN {IF x.zone_name = z
          THEN [x EXCEPT !.latitude = lat, !.longitude = lon, !.trip_count = cnt]
          ELSE x : x \in zones}
    ELSE zones \cup {[id |-> nextid, zone_name |-> z,
                      latitude |-> lat, longitude |-> lon, trip_count |-> cnt]}

\* SELECT id FROM zones WHERE zone_name = %s, guarded by pd.notna: the id, or
\* None when the label is missing or no row has it.
zone_id(zones, label) ==
    IF IsNa(label) \/ ~\E x \in zones : x.zone_name = label THEN NaN
    ELSE (CHOOSE x \in zones : x.zone_name = label).id

\* The trips row of a record; DECIMAL(6, 2) keeps the speed to 1e-2 km/h, and
\* a TIMESTAMP column takes a Timestamp as it is and parses a text.
Decimal2(milli) == IF IsNa(milli) \/ milli = Inf THEN milli ELSE RoundDiv(milli, 10) * 10
TimestampCell(r, x) ==
    IF IsNa(x) THEN NaN
    ELSE IF r.datetime_dtype = "object" THEN ToDatetime(x) ELSE x
TripRow(r, pz, dz) ==
    [id |-> r.id, vendor_id |-> r.vendor_id,
     pickup_datetime |-> TimestampCell(r, r.pickup_datetime),
     dropoff_datetime |-> TimestampCell(r, r.dropoff_datetime),
     passenger_count |-> r.passenger_count,
     pickup_longitude |-> r.pickup_longitude, pickup_latitude |-> r.pickup_latitude,
     dropoff_longitude |-> r.dropoff_longitude, dropoff_latitude |-> r.dropoff_latitude,
     trip_duration |-> r.trip_duration, trip_distance_km |-> r.trip_distance_km,
     trip_speed_kmh |-> Decimal2(r.trip_speed_kmh),
     fare_amount |-> r.fare_amount, fare_per_km |-> r.fare_per_km,
     pickup_zone_id |-> pz, dropoff_zone_id |-> dz]

\* The REFERENCES clauses of the trips table: a non-null reference names a row.
\* Faulty variants: a trips table without REFERENCES; zone columns declared
\* NOT NULL.
ForeignKeysUnchecked(store, t) == TRUE
ForeignKeysNotNull(store, t) ==
    /\ IsNa(t.vendor_id) \/ \E v \in store.vendors : v.vendor_id = t.vendor_id
    /\ \E z \in store.zones : z.id = t.pickup_zone_id
    /\ \E z \in store.zones : z.id = t.dropoff_zone_id
ForeignKeysHold(store, t) ==
    /\ IsNa(t.vendor_id) \/ \E v \in store.vendors : v.vendor_id = t.vendor_id
    /\ IsNa(t.pickup_zone_id) \/ \E z \in store.zones : z.id = t.pickup_zone_id
    /\ IsNa(t.dropoff_zone_id) \/ \E z \in store.zones : z.id = t.dropoff_zone_id

\* The INTEGER columns of trips take no NaN: save_to_database passes the
\* cell as it is, insert_cleaned_csv passes None for it (convert_value).
IntegerCellsOk(l, r) ==
    l = "setup" \/
    (~IsNa(r.vendor_id) /\ ~IsNa(r.passenger_count) /\ ~IsNa(r.trip_duration))

\* INSERT INTO trips ... ON CONFLICT (id) DO NOTHING
\* Faulty variant: the existing trip row is overwritten.
InsertTripOverwrite(trips, t) == {x \in trips : x.id # t.id} \cup {t}
InsertTripRow(trips, t) ==
    IF \E x \in trips : x.id = t.id THEN trips ELSE trips \cup {t}

---------------------------------------------------------------------------
(* The cleaned batches handed to the loaders.                              *)

MaxLoads == 2

\* batch_size of insert_trips (100 in the source), scaled to the batches of
\* the model.
batch_size == 2

\* A record as the cleaning run leaves it: the base record with its derived
\* columns, zoned in a batch that spans P1..P3.
CleanedBase(id) ==
    [BaseRecord(id) EXCEPT
        !.pickup_datetime = ToDatetime(@), !.dropoff_datetime = ToDatetime(@),
        !.datetime_dtype = "datetime64",
        !.trip_distance_km = 5420, !.trip_speed_kmh = trip_speed(5420, 600),
        !.fare_amount = fare_amount(5420, 600),
        !.fare_per_km = fare_per_km(fare_amount(5420, 600), 5420),
        !.pickup_zone = ZoneLabel(0, 0), !.dropoff_zone = ZoneLabel(6, 1)]

\* The base record; one without vendor; one without pickup zone; one of
\* another vendor that runs from P3 to P1 inside the pickup zone of the base.
CleanedVariants(b) ==
    {b}
    \cup {[b EXCEPT !.vendor_id = NaN]}
    \cup {[b EXCEPT !.pickup_zone = NaN]}
    \cup {[b EXCEPT !.vendor_id = 2,
                    !.pickup_latitude = P3[1], !.pickup_longitude = P3[2],
                    !.dropoff_latitude = P1[1], !.dropoff_longitude = P1[2],
                    !.trip_distance_km = 23099, !.trip_speed_kmh = trip_speed(23099, 600),
                    !.fare_amount = fare_amount(23099, 600),
                    !.fare_per_km = fare_per_km(fare_amount(23099, 600), 23099),
                    !.dropoff_zone = ZoneLabel(0, 0)]}

\* A cleaned batch holds every id once (drop_duplicates); the rows are taken
\* in the order of their ids.
LoadIds == {1, 2}
LoadRecords == UNION {CleanedVariants(CleanedBase(id)) : id \in LoadIds}
AscendingIds(rows) == \A i, j \in 1..Len(rows) : i < j => rows[i].id < rows[j].id
BatchesOf(records, maxlen) ==
    {Indexed(rows) : rows \in {q \in UNION {[1..n -> records] : n \in 0..maxlen} :
                                 AscendingIds(q)}}
LoadBatches == BatchesOf(LoadRecords, Cardinality(LoadIds))

\* Batches longer than one chunk.
ChunkIds == {1, 2, 3}
ChunkRecords == UNION {CleanedVariants(CleanedBase(id)) : id \in ChunkIds}
ChunkBatches == BatchesOf(ChunkRecords, Cardinality(ChunkIds))
Loaders == {"processor", "setup"}

---------------------------------------------------------------------------
(* A load call: save_to_database (loader "processor") or                   *)
(* insert_cleaned_csv (loader "setup"), one statement per step.            *)

Running == lpc \in {"vendors", "zones", "trips", "commit"}

\* conn.commit(): what the connection wrote becomes the store.
Commit(store, view) == view

\* except: conn.rollback(); raise.  The store keeps what was committed;
\* start is the store as the call found it.
\* Faulty variants: the handler commits; the handler undoes the whole call.
OnErrorCommit(start, store, view) == view
OnErrorUndoAll(start, store, view) == start
OnError(start, store, view) == store

\* The call opens its connection and reads its DataFrame b.
BeginLoad(b, l) ==
    /\ batch' = b
    /\ loader' = l
    /\ vtodo' = unique_vendors(b)
    /\ hist' = [start |-> db, committed |-> db, failedIn |-> "none", failedAt |-> "none",
                repeat |-> (lpc = "done" /\ b = batch)]
    /\ tx' = db
    /\ lpc' = "vendors"
    /\ ztodo' = {}
    /\ pos' = 0
    /\ loads' = loads + 1
    /\ UNCHANGED <<db, seq>>

StartLoad ==
    /\ lpc \in {"idle", "done", "failed"}
    /\ loads < MaxLoads
    /\ \E b \in LoadBatches, l \in Loaders : BeginLoad(b, l)

\* One load call of a batch of up to three rows into the empty store.
StartChunkLoad ==
    /\ lpc = "idle"
    /\ \E b \in ChunkBatches, l \in Loaders : BeginLoad(b, l)

\* One iteration of the vendor loop.
InsertVendor ==
    /\ lpc = "vendors"
    /\ vtodo # <<>>
    /\ LET v    == Head(vtodo)
           name == VendorName(v, loader = "processor" /\ FloatColumn(batch))
       IN  tx' = [tx EXCEPT !.vendors = InsertVendorRow(@, v, name)]
    /\ vtodo' = Tail(vtodo)
    /\ UNCHANGED <<db, seq, batch, loader, lpc, ztodo, pos, loads, hist>>

\* conn.commit() after the vendor loop; the zone labels are collected.
\* Faulty variant: the vendor loop is not committed.
CommitVendorsSkipped ==
    /\ lpc = "vendors"
    /\ vtodo = <<>>
    /\ lpc' = "zones"
    /\ ztodo' = all_zones(batch)
    /\ UNCHANGED <<db, tx, seq, batch, loader, vtodo, pos, loads, hist>>
CommitVendors ==
    /\ lpc = "vendors"
    /\ vtodo = <<>>
    /\ db' = Commit(db, tx)
    /\ hist' = [hist EXCEPT !.committed = Commit(db, tx)]
    /\ lpc' = "zones"
    /\ ztodo' = all_zones(batch)
    /\ UNCHANGED <<tx, seq, batch, loader, vtodo, pos, loads>>

\* One iteration of the zone loop (a Python set: any order).  The SERIAL
\* default is evaluated for every INSERT, also when the row exists.
InsertZone ==
    /\ lpc = "zones"
    /\ \E z \in ztodo :
        /\ tx' = [tx EXCEPT !.zones = UpsertZoneRow(@, seq + 1, z, avg_lat(batch, z),
                                                    avg_lon(batch, z), trip_count(batch, z))]
        /\ ztodo' = ztodo \ {z}
    /\ seq' = seq + 1
    /\ UNCHANGED <<db, batch, loader, lpc, vtodo, pos, loads, hist>>

\* Where the call goes once the zones are committed: insert_trips has no
\* chunk for an empty DataFrame, insert_cleaned_csv commits after its loop.
AfterZones ==
    IF Len(batch) > 0 THEN "trips"
    ELSE IF loader = "processor" THEN "done" ELSE "commit"

CommitZones ==
    /\ lpc = "zones"
    /\ ztodo = {}
    /\ db' = Commit(db, tx)
    /\ hist' = [hist EXCEPT !.committed = Commit(db, tx)]
    /\ lpc' = AfterZones
    /\ UNCHANGED <<tx, seq, batch, loader, vtodo, ztodo, pos, loads>>

\* The row whose insert closes a chunk: every batch_size-th row and the last
\* one in insert_trips, the last one only in insert_cleaned_csv.
ChunkEnds(l, n, len) ==
    IF l = "processor" THEN n % batch_size = 0 \/ n = len ELSE n = len

\* One iteration of the row loop: the two zone lookups and the INSERT.
InsertTrip ==
    /\ lpc = "trips"
    /\ pos < Len(batch)
    /\ LET r == batch[pos + 1]
           t == TripRow(r, zone_id(tx.zones, r.pickup_zone),
                           zone_id(tx.zones, r.dropoff_zone))
       IN  /\ IntegerCellsOk(loader, r)
           /\ (\E x \in tx.trips : x.id = t.id) \/ ForeignKeysHold(tx, t)
           /\ tx' = [tx EXCEPT !.trips = InsertTripRow(@, t)]
    /\ pos' = pos + 1
    /\ lpc' = IF ChunkEnds(loader, pos + 1, Len(batch)) THEN "commit" ELSE "trips"
    /\ UNCHANGED <<db, seq, batch, loader, vtodo, ztodo, loads, hist>>

\* conn.commit() of the trips phase.
CommitTrips ==
    /\ lpc = "commit"
    /\ db' = Commit(db, tx)
    /\ hist' = [hist EXCEPT !.committed = Commit(db, tx)]
    /\ lpc' = IF pos = Len(batch) THEN "done" ELSE "trips"
    /\ UNCHANGED <<tx, seq, batch, loader, vtodo, ztodo, pos, loads>>

\* A statement or a commit raises (connection loss, a value the driver or a
\* column refuses, a violated constraint, a timeout): the except clause.
Phase == IF lpc = "commit" THEN "trips" ELSE lpc
Fail ==
    /\ Running
    /\ db' = OnError(hist.start, db, tx)
    /\ tx' = OnError(hist.start, db, tx)
    /\ hist' = [hist EXCEPT !.failedIn = Phase, !.failedAt = lpc]
    /\ lpc' = "failed"
    /\ UNCHANGED <<seq, batch, loader, vtodo, ztodo, pos, loads>>

---------------------------------------------------------------------------
(* The files and the top-level calls of a DataProcessor.                   *)

MaxCalls == 2
MaxPipe == 2

\* max_records of load_data / load_cleaned_data (5000 in the source) and nrows
\* of insert_cleaned_csv (1000), scaled to the files of the model.
max_records == 2
setup_nrows == 2

NoFile == [exists |-> FALSE, rows |-> <<>>]
NoCall == [name |-> "none", outcome |-> "none", at |-> "none", check |-> "none", n |-> 0,
           pre |-> [db |-> EmptyStore, seq |-> 0, excluded_records |-> <<>>,
                    source_ok |-> FALSE,
                    cleaned_file |-> NoFile, ledger_file |-> NoFile]]

\* What a call finds when it starts.
Pre == [db |-> db, seq |-> seq, excluded_records |-> excluded_records,
        source_ok |-> csv_file.ok,
        cleaned_file |-> cleaned_file, ledger_file |-> ledger_file]
Called(name, outcome, at) ==
    [name |-> name, outcome |-> outcome, at |-> at, check |-> "none",
     n |-> call.n + 1, pre |-> Pre]
CanCall == call.outcome # "running" /\ ~Running /\ call.n < MaxCalls

\* to_csv writes a Timestamp as its text; index=False leaves the index out.
FormatDatetime(t) ==
    IF IsNa(t) THEN NaN
    ELSE (t \div 3600) * 10000 + ((t \div 60) % 60) * 100 + (t % 60)
WriteCsv(d) ==
    [i \in 1..Len(d) |->
        IF d[i].datetime_dtype = "object" THEN [d[i] EXCEPT !.index = 0]
        ELSE [d[i] EXCEPT !.index = 0, !.datetime_dtype = "object",
                          !.pickup_datetime  = FormatDatetime(@),
                          !.dropoff_datetime = FormatDatetime(@)]]

\* pd.read_csv(file, nrows=n): the first n rows, numbered from 0.
ReadCsv(rows, n) == Indexed(SubSeq(rows, 1, IF Len(rows) < n THEN Len(rows) ELSE n))

\* The sources of the model: rows that are kept, rows that a filter of
\* clean_data or of calculate_derived_features drops, rows with a missing
\* cell, and a text that is no datetime.
PipelineVariants(b) ==
    {b}
    \cup {[b EXCEPT !.passenger_count = NaN]}
    \cup {[b EXCEPT !.dropoff_datetime = 500]}
    \cup {[b EXCEPT !.pickup_datetime = 9999]}
    \cup {[b EXCEPT !.dropoff_latitude = P1[1], !.dropoff_longitude = P1[2]]}
    \cup {[b EXCEPT !.pickup_latitude = P3[1], !.pickup_longitude = P3[2]]}
PipelineRecords == UNION {PipelineVariants(BaseRecord(id)) : id \in RawIds}
PipelineSources ==
    {[ok |-> FALSE, rows |-> <<>>]}
    \cup {[ok |-> TRUE, rows |-> rows] :
             rows \in UNION {[1..n -> PipelineRecords] : n \in 0..MaxPipe}}

\* DataProcessor(): a new instance, its ledger empty.
Construct ==
    /\ CanCall
    /\ excluded_records' = <<>>
    /\ call' = Called("__init__", "returned", "none")
    /\ UNCHANGED <<raw, df, stage, csv_file, cleaned_file, ledger_file>>

\* train.csv is removed or damaged: read_csv will raise.
SourceLost ==
    /\ CanCall /\ csv_file.ok
    /\ csv_file' = [ok |-> FALSE, rows |-> <<>>]
    /\ UNCHANGED <<raw, df, excluded_records, stage, cleaned_file, ledger_file, call>>

\* df.to_csv(self.cleaned_file) and the write of excluded_records.txt come
\* after the three steps: they are reached only when none of them raised.
\* Faulty variant: the snapshot is written in any case.
SaveCleanedAlways(ok, old, d) == [exists |-> TRUE, rows |-> WriteCsv(d)]
SaveCleaned(ok, old, d) ==
    IF ok THEN [exists |-> TRUE, rows |-> WriteCsv(d)] ELSE old
SaveLedger(ok, old, led) ==
    IF ok /\ led # <<>> THEN [exists |-> TRUE, rows |-> led] ELSE old

\* clean_all_data_and_save(max_records): load_data, clean_data,
\* calculate_derived_features, to_csv, and the ledger file when the ledger
\* is not empty; an exception of any step is logged and raised again.
CleanAllDataAndSave ==
    /\ CanCall
    /\ IF ~csv_file.ok
       THEN /\ call' = Called("clean_all_data_and_save", "raised", "load_data")
            /\ cleaned_file' = SaveCleaned(FALSE, cleaned_file, <<>>)
            /\ ledger_file' = SaveLedger(FALSE, ledger_file, excluded_records)
            /\ UNCHANGED <<raw, df, excluded_records, stage>>
       ELSE LET d0 == ReadCsv(csv_file.rows, max_records)
                r1 == clean_data(d0, excluded_records)
                r2 == IF r1[1] THEN calculate_derived_features(r1[2], r1[3]) ELSE r1
            IN  /\ raw' = d0
                /\ df' = r2[2]
                /\ excluded_records' = r2[3]
                /\ stage' = IF r2[1] THEN "derived" ELSE "error"
                /\ cleaned_file' = SaveCleaned(r2[1], cleaned_file, r2[2])
                /\ ledger_file' = SaveLedger(r2[1], ledger_file, r2[3])
                /\ call' = IF r2[1] THEN Called("clean_all_data_and_save", "returned", "none")
                           ELSE IF r1[1]
                           THEN Called("clean_all_data_and_save", "raised",
                                       "calculate_derived_features")
                           ELSE Called("clean_all_data_and_save", "raised", "clean_data")
    /\ UNCHANGED csv_file

\* The source files of the start-up runs: short files of valid rows, rows
\* with an empty passenger_count and rows the cleaning excludes.
MaxStartRows == 1
StartupVariants(b) ==
    {b}
    \cup {[b EXCEPT !.passenger_count = NaN]}
    \cup {[b EXCEPT !.dropoff_datetime = 500]}
StartupRecords == UNION {StartupVariants(BaseRecord(id)) : id \in 1..MaxStartRows}
StartupSources ==
    {[ok |-> FALSE, rows |-> <<>>]}
    \cup {[ok |-> TRUE, rows |-> rows] :
             rows \in UNION {[1..n -> StartupRecords] : n \in 0..MaxStartRows}}

\* check_data_exists(): SELECT COUNT(*) FROM trips gives count > 0; a query
\* that raises is logged and answered False; a connection that cannot be
\* opened raises (get_db_connection is outside the try).
check_data_exists(store, q) == IF q = "ok" THEN store.trips # {} ELSE FALSE

\* process_data_if_needed() up to the point where save_to_database has its
\* DataFrame: the check, and then either the snapshot or a cleaning run.
ProcessDataIfNeeded ==
    /\ CanCall
    /\ \E q \in {"ok", "query_fails", "connect_fails"} :
        LET name == "process_data_if_needed"
            Of(outcome, at) == [Called(name, outcome, at) EXCEPT !.check = q]
        IN
        IF q = "connect_fails"
        THEN /\ call' = Of("raised", "check_data_exists")
             /\ UNCHANGED <<cleanVars, loadVars, cleaned_file, ledger_file>>
        ELSE IF check_data_exists(db, q)
        THEN /\ call' = Of("returned", "skip")
             /\ UNCHANGED <<cleanVars, loadVars, cleaned_file, ledger_file>>
        ELSE IF cleaned_file.exists
        THEN /\ BeginLoad(ReadCsv(cleaned_file.rows, max_records), "processor")
             /\ call' = Of("running", "snapshot")
             /\ UNCHANGED <<cleanVars, cleaned_file, ledger_file>>
        ELSE IF ~csv_file.ok
        THEN /\ call' = Of("raised", "load_data")
             /\ UNCHANGED <<cleanVars, loadVars, cleaned_file, ledger_file>>
        ELSE LET d0 == ReadCsv(csv_file.rows, max_records)
                 r1 == clean_data(d0, excluded_records)
                 r2 == IF r1[1] THEN calculate_derived_features(r1[2], r1[3]) ELSE r1
             IN  /\ raw' = d0
                 /\ df' = r2[2]
                 /\ excluded_records' = r2[3]
                 /\ stage' = IF r2[1] THEN "derived" ELSE "error"
                 /\ IF r2[1]
                    THEN BeginLoad(r2[2], "processor") /\ call' = Of("running", "raw")
                    ELSE /\ call' = Of("raised", IF r1[1] THEN "calculate_derived_features"
                                                 ELSE "clean_data")
                         /\ UNCHANGED loadVars
                 /\ UNCHANGED <<cleaned_file, ledger_file>>
    /\ UNCHANGED csv_file

\* setup.insert_cleaned_csv(path) up to the point where it has its
\* DataFrame: the file must be there and the connection must open.
InsertCleanedCsv ==
    /\ CanCall
    /\ \E connects \in BOOLEAN :
        IF ~cleaned_file.exists
        THEN /\ call' = Called("insert_cleaned_csv", "raised", "exists")
             /\ UNCHANGED loadVars
        ELSE IF ~connects
        THEN /\ call' = Called("insert_cleaned_csv", "raised", "get_db_connection")
             /\ UNCHANGED loadVars
        ELSE /\ BeginLoad(ReadCsv(cleaned_file.rows, setup_nrows), "setup")
             /\ call' = Called("insert_cleaned_csv", "running", "snapshot")
    /\ UNCHANGED <<cleanVars, csv_file, cleaned_file, ledger_file>>

\* The load of the running call has ended: save_to_database or
\* insert_cleaned_csv returns or raises, and process_data_if_needed, having
\* cleaned the raw file itself, writes the ledger file when the ledger is
\* not empty.
FinishCall ==
    /\ call.outcome = "running" /\ lpc \in {"done", "failed"}
    /\ call' = [call EXCEPT !.outcome = IF lpc = "done" THEN "returned" ELSE "raised"]
    /\ ledger_file' = SaveLedger(lpc = "done" /\ call.at = "raw", ledger_file,
                                 excluded_records)
    /\ UNCHANGED <<cleanVars, loadVars, csv_file, cleaned_file>>

---------------------------------------------------------------------------
(* Several DataProcessor instances: each holds the names of its two files  *)
(* and a reference to the list object that is its ledger.                  *)

MaxProcs == 2
MaxLedgerCalls == 4

\* self.excluded_records = []: a new list object.
\* Faulty variant: one list object for all instances (a class attribute).
AllocShared(h) == 1
Alloc(h) == Len(h) + 1

\* The ledger of instance p.
LedgerOf(p) == heap[procs[p].excluded_records]

\* One-row frames: a row that is kept, one the datetime filter drops, one
\* the speed filter drops.
LedgerRecords ==
    UNION {{b, [b EXCEPT !.dropoff_datetime = 500],
            [b EXCEPT !.dropoff_latitude = P1[1], !.dropoff_longitude = P1[2]]} :
           b \in {BaseRecord(id) : id \in RawIds}}
LedgerBatches == {Indexed(<<r>>) : r \in LedgerRecords}

CanCallOn(p) == p \in 1..Len(procs) /\ ~Running /\ call.n < MaxLedgerCalls
CalledOn(p, name, ok) ==
    [call EXCEPT !.name = name, !.outcome = IF ok THEN "returned" ELSE "raised",
                 !.at = p, !.n = @ + 1]

\* DataProcessor()
NewProcessor ==
    /\ Len(procs) < MaxProcs /\ ~Running
    /\ LET ref == Alloc(heap)
       IN  /\ heap' = IF ref > Len(heap) THEN Append(heap, <<>>) ELSE heap
           /\ procs' = Append(procs, [csv_file |-> "train.csv",
                                      cleaned_file |-> "cleaned_dataset.csv",
                                      excluded_records |-> ref])
    /\ call' = [call EXCEPT !.name = "__init__", !.outcome = "returned",
                            !.at = Len(procs) + 1]
    /\ UNCHANGED <<cleanVars, loadVars, csv_file, cleaned_file, ledger_file>>

\* procs[p].clean_data(b)
ProcCleanData(p, b) ==
    /\ CanCallOn(p)
    /\ LET res == clean_data(b, LedgerOf(p))
       IN  /\ raw' = b
           /\ df' = res[2]
           /\ stage' = IF res[1] THEN "cleaned" ELSE "error"
           /\ heap' = [heap EXCEPT ![procs[p].excluded_records] = res[3]]
           /\ call' = CalledOn(p, "clean_data", res[1])
    /\ UNCHANGED <<excluded_records, loadVars, csv_file, cleaned_file, ledger_file, procs>>

\* procs[p].calculate_derived_features(df) on a frame clean_data returned
ProcCalculateDerivedFeatures(p) ==
    /\ CanCallOn(p) /\ stage = "cleaned"
    /\ LET res == calculate_derived_features(df, LedgerOf(p))
       IN  /\ df' = res[2]
           /\ stage' = IF res[1] THEN "derived" ELSE "error"
           /\ heap' = [heap EXCEPT ![procs[p].excluded_records] = res[3]]
           /\ call' = CalledOn(p, "calculate_derived_features", res[1])
    /\ UNCHANGED <<raw, excluded_records, loadVars, csv_file, cleaned_file, ledger_file, procs>>

\* procs[p].save_to_database(df) on a frame with its derived columns
ProcSaveToDatabase(p) ==
    /\ CanCallOn(p) /\ stage = "derived"
    /\ BeginLoad(df, "processor")
    /\ call' = CalledOn(p, "save_to_database", TRUE)
    /\ UNCHANGED <<cleanVars, csv_file, cleaned_file, ledger_file, procs, heap>>

---------------------------------------------------------------------------
(* The analytics API (api_routes.py): one request at a time against the    *)
(* committed store, while a load may be running on its own connection.     *)

Endpoints ==
    {"/stats", "/trips", "/zones", "/busiest-zones", "/all-zones-with-counts",
     "/hourly-distribution", "/fare-analysis", "/mobility-insights",
     "/vendor-performance"}

\* The message of jsonify({'error': ...}), 500 in the handler's except.
ErrorBody(e) ==
    CASE e = "/stats" -> "Failed to get statistics"
      [] e = "/trips" -> "Failed to get trips"
      [] e = "/zones" -> "Failed to get zones"
      [] e = "/busiest-zones" -> "Failed to get busiest zones"
      [] e = "/all-zones-with-counts" -> "Failed to get all zones with counts"
      [] e = "/hourly-distribution" -> "Failed to get hourly distribution"
      [] e = "/fare-analysis" -> "Failed to get fare analysis"
      [] e = "/mobility-insights" -> "Failed to get mobility insights"
      [] e = "/vendor-performance" -> "Failed to get vendor performance"

\* What can go wrong from outside: psycopg2.connect raises, or a
\* cursor.execute raises (timeout, lost connection).
Faults == {"none", "connect", "query"}

\* The query string: well formed, or with a value that float(), int() or
\* the TIMESTAMP comparison of the query rejects.
Params == {"ok", "malformed"}
ReadsParams(e) == e \in {"/trips", "/hourly-distribution", "/fare-analysis"}

\* AVG, MIN, MAX over rows without a value of the column give NULL.
AllNull(rows, f) == \A t \in rows : IsNa(t[f])
AnyNull(rows, f) == \E t \in rows : IsNa(t[f])
HourOf(t) == IF IsNa(t.pickup_datetime) THEN NaN ELSE t.pickup_datetime \div 3600
InHour(rows, h) == {t \in rows : HourOf(t) = h}
OfVendor(rows, v) == {t \in rows : t.vendor_id = v.vendor_id}
FromZone(rows, z) == {t \in rows : t.pickup_zone_id = z.id}

\* The handler calls float() or int() on a NULL of its result rows.
ConvertsNull(e, store) ==
    LET trips == store.trips IN
    CASE e = "/stats" ->
            \/ \E f \in {"trip_speed_kmh", "fare_per_km", "trip_duration",
                          "trip_distance_km", "fare_amount"} : AllNull(trips, f)
            \/ \E t \in trips : \E f \in {"trip_speed_kmh", "fare_amount"} :
                   IsNa(HourOf(t)) \/ AllNull(InHour(trips, HourOf(t)), f)
      [] e = "/trips" ->
            \E f \in {"pickup_latitude", "pickup_longitude", "dropoff_latitude",
                       "dropoff_longitude", "trip_duration", "trip_distance_km",
                       "trip_speed_kmh", "fare_per_km", "passenger_count"} :
                AnyNull({t \in trips : ~IsNa(t.fare_amount)}, f)
      [] e = "/fare-analysis" ->
            \/ Cardinality({t \in trips : ~IsNa(t.fare_per_km)}) < 2
            \/ \E f \in {"fare_amount", "trip_distance_km", "trip_duration",
                          "trip_speed_kmh", "fare_per_km"} : AnyNull(trips, f)
      [] e = "/mobility-insights" ->
            \/ \E f \in {"trip_speed_kmh", "fare_per_km"} : AllNull(trips, f)
            \/ \E t \in trips :
                   \E f \in {"trip_speed_kmh", "trip_distance_km", "fare_per_km"} :
                       IsNa(HourOf(t)) \/ AllNull(InHour(trips, HourOf(t)), f)
            \/ \E z \in store.zones :
                   \E f \in {"trip_speed_kmh", "trip_distance_km", "fare_per_km"} :
                       /\ Cardinality(FromZone(trips, z)) >= 5
                       /\ AllNull(FromZone(trips, z), f)
      [] e = "/vendor-performance" ->
            \E v \in store.vendors :
                \E f \in {"trip_speed_kmh", "fare_per_km", "trip_distance_km",
                           "trip_duration", "fare_amount"} :
                    AllNull(OfVendor(trips, v), f)
      [] OTHER -> FALSE

\* An exception inside the handler's try block.
RaisesInTry(e, store, p, fault) ==
    \/ fault = "query"
    \/ p = "malformed" /\ ReadsParams(e)
    \/ ConvertsNull(e, store)

\* The response of one handler. get_db_connection() is called before the
\* try: when it raises, the handler's except is not reached and Flask
\* answers, with the debugger's traceback page under app.run(debug=True)
\* and with its own "Internal Server Error" page otherwise.
Handle(e, store, p, fault, debug) ==
    IF fault = "connect"
    THEN [status |-> 500, body |-> IF debug THEN "traceback" ELSE "Internal Server Error"]
    ELSE IF RaisesInTry(e, store, p, fault)
    THEN [status |-> 500, body |-> ErrorBody(e)]
    ELSE [status |-> 200, body |-> "data"]

\* The statements of a handler are SELECTs and its connection is closed
\* without a commit: the store stays as it is.
\* Faulty variant: a handler deletes the trips it has read.
RunQueriesDeleting(e, store) == [store EXCEPT !.trips = {}]
RunQueries(e, store) == store

NoResponse == [endpoint |-> "none", params |-> "none", fault |-> "none",
               status |-> 0, body |-> "none"]

\* One GET request, served to its end.
ApiRequest ==
    /\ \E e \in Endpoints, p \in Params, fault \in Faults, debug \in BOOLEAN :
        LET h == Handle(e, db, p, fault, debug)
        IN  /\ response' = [endpoint |-> e, params |-> p, fault |-> fault,
                            status |-> h.status, body |-> h.body]
            /\ db' = IF fault = "connect" THEN db ELSE RunQueries(e, db)
    /\ UNCHANGED <<tx, seq, batch, loader, lpc, vtodo, ztodo, pos, loads, hist>>

\* The cleaned frames loaded while the API is serving: one trip, complete
\* or with its trip_duration and the columns derived from it missing.
ApiRecords ==
    {CleanedBase(1),
     [CleanedBase(1) EXCEPT !.trip_duration = NaN,
                            !.trip_speed_kmh = trip_speed(5420, NaN),
                            !.fare_amount = fare_amount(5420, NaN),
                            !.fare_per_km = fare_per_km(fare_amount(5420, NaN), 5420)]}
ApiBatches == BatchesOf(ApiRecords, 1)

StartApiLoad ==
    /\ lpc = "idle"
    /\ \E b \in ApiBatches, l \in Loaders : BeginLoad(b, l)

---------------------------------------------------------------------------
(* process_data_interactive(batch_size): the cleaned file is loaded batch   *)
(* by batch, the user answering after each batch.                          *)

MaxInterRows == 3
BatchSizes == {1, 2}

\* The answers input() can give, stripped and lowered: Enter, 'a', 'q', and
\* anything else.
Answers == {"", "a", "q", "x"}

\* pc: "idle", "loop" (top of the while), "saving" and "saving_all" (inside
\* save_to_database), "prompt" (inside input), "returned", "raised".
\* passed: the <<first row, number of rows>> of every frame handed to
\* save_to_database, rows counted from 0.
NoSession == [pc |-> "idle", batch_size |-> 0, total_processed |-> 0,
              passed |-> <<>>, answers |-> <<>>, returned |-> NaN]

\* The cleaned files found on disk: up to MaxInterRows cleaned records of
\* distinct ids, as to_csv writes them.
InterFiles ==
    {[exists |-> TRUE, rows |-> WriteCsv([i \in 1..n |-> CleanedBase(i)])] :
        n \in 0..MaxInterRows}

\* df.iloc[start:] of a frame: the rows after the first start rows, with
\* the index labels they had.
ILocFrom(d, start) == SubSeq(d, start + 1, Len(d))

\* total_processed += len(df)
\* Faulty variant: the count is not advanced.
AdvanceNot(total, d) == total
Advance(total, d) == total + Len(d)

\* The call up to the top of the while loop: when there is no cleaned file
\* the user is asked, and clean_all_data_and_save() runs or the call
\* returns 0.
InteractiveStart ==
    /\ session.pc = "idle" /\ ~Running
    /\ \E bs \in BatchSizes, answer \in {"y", "n"} :
        LET s0 == [session EXCEPT !.batch_size = bs] IN
        IF cleaned_file.exists
        THEN /\ session' = [s0 EXCEPT !.pc = "loop"]
             /\ UNCHANGED <<cleanVars, cleaned_file, ledger_file>>
        ELSE IF answer = "n"
        THEN /\ session' = [s0 EXCEPT !.pc = "returned", !.returned = 0,
                                      !.answers = <<answer>>]
             /\ UNCHANGED <<cleanVars, cleaned_file, ledger_file>>
        ELSE IF ~csv_file.ok
        THEN /\ session' = [s0 EXCEPT !.pc = "raised", !.answers = <<answer>>]
             /\ UNCHANGED <<cleanVars, cleaned_file, ledger_file>>
        ELSE LET d0 == ReadCsv(csv_file.rows, max_records)
                 r1 == clean_data(d0, excluded_records)
                 r2 == IF r1[1] THEN calculate_derived_features(r1[2], r1[3]) ELSE r1
             IN  /\ raw' = d0
                 /\ df' = r2[2]
                 /\ excluded_records' = r2[3]
                 /\ stage' = IF r2[1] THEN "derived" ELSE "error"
                 /\ cleaned_file' = SaveCleaned(r2[1], cleaned_file, r2[2])
                 /\ ledger_file' = SaveLedger(r2[1], ledger_file, r2[3])
                 /\ session' = [s0 EXCEPT !.pc = IF r2[1] THEN "loop" ELSE "raised",
                                          !.answers = <<answer>>]
    /\ UNCHANGED <<loadVars, csv_file, call>>

\* The top of the while loop: the first end_record rows are read, the loop
\* is left when they hold nothing new, and the new rows go to
\* save_to_database.
InteractiveBatch ==
    /\ session.pc = "loop" /\ Len(session.passed) <= MaxInterRows
    /\ LET start_record == session.total_processed
           end_record   == start_record + session.batch_size
           d            == ReadCsv(cleaned_file.rows, end_record)
       IN  IF Len(d) <= start_record \/ ILocFrom(d, start_record) = <<>>
           THEN /\ session' = [session EXCEPT !.pc = "returned",
                                              !.returned = session.total_processed]
                /\ UNCHANGED loadVars
           ELSE /\ BeginLoad(ILocFrom(d, start_record), "processor")
                /\ session' = [session EXCEPT
                       !.pc = "saving",
                       !.passed = Append(@, <<start_record,
                                              Len(ILocFrom(d, start_record))>>)]
    /\ UNCHANGED <<cleanVars, fileVars>>

\* save_to_database has returned or raised: the count is advanced and the
\* user is asked, or the exception leaves the call.
InteractiveSaved ==
    /\ session.pc \in {"saving", "saving_all"} /\ lpc \in {"done", "failed"}
    /\ session' =
          IF lpc = "failed" THEN [session EXCEPT !.pc = "raised"]
          ELSE IF session.pc = "saving"
          THEN [session EXCEPT !.pc = "prompt",
                               !.total_processed = Advance(@, batch)]
          ELSE [session EXCEPT !.pc = "returned",
                               !.total_processed = Advance(@, batch),
                               !.returned = Advance(session.total_processed, batch)]
    /\ UNCHANGED <<cleanVars, loadVars, fileVars>>

\* The user answers: 'q' leaves the loop, 'a' loads what load_cleaned_data()
\* returns beyond the rows processed and leaves the loop, anything else
\* goes on with the next batch.
InteractiveAnswer ==
    /\ session.pc = "prompt"
    /\ \E answer \in Answers :
        LET s1 == [session EXCEPT !.answers = Append(@, answer)]
            remaining_df == ReadCsv(cleaned_file.rows, max_records)
        IN
        IF answer = "q"
        THEN /\ session' = [s1 EXCEPT !.pc = "returned",
                                      !.returned = session.total_processed]
             /\ UNCHANGED loadVars
        ELSE IF answer = "a"
        THEN IF Len(remaining_df) > session.total_processed
             THEN /\ BeginLoad(ILocFrom(remaining_df, session.total_processed),
                               "processor")
                  /\ session' = [s1 EXCEPT
                         !.pc = "saving_all",
                         !.passed = Append(@, <<session.total_processed,
                                                Len(remaining_df)
                                                    - session.total_processed>>)]
             ELSE /\ session' = [s1 EXCEPT !.pc = "returned",
                                           !.returned = session.total_processed]
                  /\ UNCHANGED loadVars
        ELSE /\ session' = [s1 EXCEPT !.pc = "loop"]
             /\ UNCHANGED loadVars
    /\ UNCHANGED <<cleanVars, fileVars>>

---------------------------------------------------------------------------
(* Specifications.                                                         *)

CleanIdle == raw = <<>> /\ df = <<>> /\ excluded_records = <<>> /\ stage = "idle"

\* No file on disk and no call made.
FilesIdle ==
    /\ csv_file = [ok |-> FALSE, rows |-> <<>>]
    /\ cleaned_file = NoFile /\ ledger_file = NoFile
    /\ call = NoCall
    /\ procs = <<>> /\ heap = <<>>
    /\ response = NoResponse
    /\ session = NoSession

LoadIdle ==
    /\ db = EmptyStore /\ tx = EmptyStore /\ seq = 0
    /\ batch = <<>> /\ loader = "processor" /\ lpc = "idle"
    /\ vtodo = <<>> /\ ztodo = {} /\ pos = 0 /\ loads = 0
    /\ hist = [start |-> EmptyStore, committed |-> EmptyStore,
               failedIn |-> "none", failedAt |-> "none", repeat |-> FALSE]

\* A fresh DataProcessor about to clean a batch it has read.
InitClean ==
    /\ raw \in RawBatches
    /\ df = raw
    /\ excluded_records = <<>>
    /\ stage = "raw"
    /\ LoadIdle /\ FilesIdle

NextClean ==
    \/ CleanData /\ UNCHANGED <<loadVars, fileVars, instVars, apiVars, interVars>>
    \/ CalculateDerivedFeatures /\ UNCHANGED <<loadVars, fileVars, instVars, apiVars, interVars>>

SpecClean == InitClean /\ [][NextClean]_vars

\* A fresh DataProcessor about to clean a batch that has work for every
\* validator filter.
InitOrder ==
    /\ raw \in OrderBatches
    /\ df = raw
    /\ excluded_records = <<>>
    /\ stage = "raw"
    /\ LoadIdle /\ FilesIdle

NextOrder == CleanData /\ UNCHANGED <<loadVars, fileVars, instVars, apiVars, interVars>>

SpecOrder == InitOrder /\ [][NextOrder]_vars

\* A batch for the derived features, cleaned and then derived.
InitFeatures ==
    /\ raw \in FeatureBatches
    /\ df = raw
    /\ excluded_records = <<>>
    /\ stage = "raw"
    /\ LoadIdle /\ FilesIdle

NextFeatures ==
    \/ CleanData /\ UNCHANGED <<loadVars, fileVars, instVars, apiVars, interVars>>
    \/ CalculateDerivedFeatures /\ UNCHANGED <<loadVars, fileVars, instVars, apiVars, interVars>>

SpecFeatures == InitFeatures /\ [][NextFeatures]_vars

\* A fresh DataProcessor about to validate a batch of up to three rows.
InitValidator ==
    /\ raw \in ValidatorBatches
    /\ df = raw
    /\ excluded_records = <<>>
    /\ stage = "raw"
    /\ LoadIdle /\ FilesIdle

NextValidator == CleanData /\ UNCHANGED <<loadVars, fileVars, instVars, apiVars, interVars>>

SpecValidator == InitValidator /\ [][NextValidator]_vars

\* An empty store (init_db) and load calls one after the other.
InitLoad == CleanIdle /\ LoadIdle /\ FilesIdle

NextLoad ==
    \/ StartLoad /\ UNCHANGED <<cleanVars, fileVars, instVars, apiVars, interVars>>
    \/ InsertVendor /\ UNCHANGED <<cleanVars, fileVars, instVars, apiVars, interVars>>
    \/ CommitVendors /\ UNCHANGED <<cleanVars, fileVars, instVars, apiVars, interVars>>
    \/ InsertZone /\ UNCHANGED <<cleanVars, fileVars, instVars, apiVars, interVars>>
    \/ CommitZones /\ UNCHANGED <<cleanVars, fileVars, instVars, apiVars, interVars>>
    \/ InsertTrip /\ UNCHANGED <<cleanVars, fileVars, instVars, apiVars, interVars>>
    \/ CommitTrips /\ UNCHANGED <<cleanVars, fileVars, instVars, apiVars, interVars>>
    \/ Fail /\ UNCHANGED <<cleanVars, fileVars, instVars, apiVars, interVars>>

SpecLoad == InitLoad /\ [][NextLoad]_vars

\* An empty store and one load call of a batch of several chunks.
NextChunk ==
    \/ StartChunkLoad /\ UNCHANGED <<cleanVars, fileVars, instVars, apiVars, interVars>>
    \/ InsertVendor /\ UNCHANGED <<cleanVars, fileVars, instVars, apiVars, interVars>>
    \/ CommitVendors /\ UNCHANGED <<cleanVars, fileVars, instVars, apiVars, interVars>>
    \/ InsertZone /\ UNCHANGED <<cleanVars, fileVars, instVars, apiVars, interVars>>
    \/ CommitZones /\ UNCHANGED <<cleanVars, fileVars, instVars, apiVars, interVars>>
    \/ InsertTrip /\ UNCHANGED <<cleanVars, fileVars, instVars, apiVars, interVars>>
    \/ CommitTrips /\ UNCHANGED <<cleanVars, fileVars, instVars, apiVars, interVars>>
    \/ Fail /\ UNCHANGED <<cleanVars, fileVars, instVars, apiVars, interVars>>

SpecChunk == InitLoad /\ [][NextChunk]_vars

\* A source file, an empty store, no snapshot, a fresh DataProcessor, and
\* top-level calls one after the other.
InitPipeline ==
    /\ CleanIdle /\ LoadIdle
    /\ csv_file \in PipelineSources
    /\ cleaned_file = NoFile /\ ledger_file = NoFile
    /\ call = NoCall
    /\ procs = <<>> /\ heap = <<>>
    /\ response = NoResponse
    /\ session = NoSession

NextPipeline ==
    \/ Construct /\ UNCHANGED <<loadVars, instVars, apiVars, interVars>>
    \/ SourceLost /\ UNCHANGED <<loadVars, instVars, apiVars, interVars>>
    \/ CleanAllDataAndSave /\ UNCHANGED <<loadVars, instVars, apiVars, interVars>>

SpecPipeline == InitPipeline /\ [][NextPipeline]_vars

\* Application start and database setup: a source file, an empty store, no
\* snapshot, and the calls that clean, check and load, one after the other.
InitStartup ==
    /\ CleanIdle /\ LoadIdle
    /\ csv_file \in StartupSources
    /\ cleaned_file = NoFile /\ ledger_file = NoFile
    /\ call = NoCall
    /\ procs = <<>> /\ heap = <<>>
    /\ response = NoResponse
    /\ session = NoSession

NextStartup ==
    \/ CleanAllDataAndSave /\ UNCHANGED <<loadVars, instVars, apiVars, interVars>>
    \/ ProcessDataIfNeeded /\ UNCHANGED <<instVars, apiVars, interVars>>
    \/ InsertCleanedCsv /\ UNCHANGED <<instVars, apiVars, interVars>>
    \/ FinishCall /\ UNCHANGED <<instVars, apiVars, interVars>>
    \/ InsertVendor /\ UNCHANGED <<cleanVars, fileVars, instVars, apiVars, interVars>>
    \/ CommitVendors /\ UNCHANGED <<cleanVars, fileVars, instVars, apiVars, interVars>>
    \/ InsertZone /\ UNCHANGED <<cleanVars, fileVars, instVars, apiVars, interVars>>
    \/ CommitZones /\ UNCHANGED <<cleanVars, fileVars, instVars, apiVars, interVars>>
    \/ InsertTrip /\ UNCHANGED <<cleanVars, fileVars, instVars, apiVars, interVars>>
    \/ CommitTrips /\ UNCHANGED <<cleanVars, fileVars, instVars, apiVars, interVars>>
    \/ Fail /\ UNCHANGED <<cleanVars, fileVars, instVars, apiVars, interVars>>

SpecStartup == InitStartup /\ [][NextStartup]_vars

\* The API serves requests before, during and after one load.
NextApi ==
    \/ ApiRequest /\ UNCHANGED <<cleanVars, fileVars, instVars, interVars>>
    \/ StartApiLoad /\ UNCHANGED <<cleanVars, fileVars, instVars, apiVars, interVars>>
    \/ InsertVendor /\ UNCHANGED <<cleanVars, fileVars, instVars, apiVars, interVars>>
    \/ CommitVendors /\ UNCHANGED <<cleanVars, fileVars, instVars, apiVars, interVars>>
    \/ InsertZone /\ UNCHANGED <<cleanVars, fileVars, instVars, apiVars, interVars>>
    \/ CommitZones /\ UNCHANGED <<cleanVars, fileVars, instVars, apiVars, interVars>>
    \/ InsertTrip /\ UNCHANGED <<cleanVars, fileVars, instVars, apiVars, interVars>>
    \/ CommitTrips /\ UNCHANGED <<cleanVars, fileVars, instVars, apiVars, interVars>>
    \/ Fail /\ UNCHANGED <<cleanVars, fileVars, instVars, apiVars, interVars>>

SpecApi == InitLoad /\ [][NextApi]_vars

\* One call of process_data_interactive on an empty store: a cleaned file
\* on disk, or none and a source file.
InitInteractive ==
    /\ CleanIdle /\ LoadIdle
    /\ \/ cleaned_file = NoFile /\ csv_file \in StartupSources
       \/ cleaned_file \in InterFiles /\ csv_file = [ok |-> FALSE, rows |-> <<>>]
    /\ ledger_file = NoFile
    /\ call = NoCall
    /\ procs = <<>> /\ heap = <<>>
    /\ response = NoResponse
    /\ session = NoSession

NextInteractive ==
    \/ InteractiveStart /\ UNCHANGED <<instVars, apiVars>>
    \/ InteractiveBatch /\ UNCHANGED <<instVars, apiVars>>
    \/ InteractiveSaved /\ UNCHANGED <<instVars, apiVars>>
    \/ InteractiveAnswer /\ UNCHANGED <<instVars, apiVars>>
    \/ InsertVendor /\ UNCHANGED <<cleanVars, fileVars, instVars, apiVars, interVars>>
    \/ CommitVendors /\ UNCHANGED <<cleanVars, fileVars, instVars, apiVars, interVars>>
    \/ InsertZone /\ UNCHANGED <<cleanVars, fileVars, instVars, apiVars, interVars>>
    \/ CommitZones /\ UNCHANGED <<cleanVars, fileVars, instVars, apiVars, interVars>>
    \/ InsertTrip /\ UNCHANGED <<cleanVars, fileVars, instVars, apiVars, interVars>>
    \/ CommitTrips /\ UNCHANGED <<cleanVars, fileVars, instVars, apiVars, interVars>>
    \/ Fail /\ UNCHANGED <<cleanVars, fileVars, instVars, apiVars, interVars>>

SpecInteractive == InitInteractive /\ [][NextInteractive]_vars

\* The same with every step that can be taken eventually taken: the loader
\* runs on and input() returns.
FairInteractive == SpecInteractive /\ WF_vars(NextInteractive)

\* No instance yet; instances are constructed and called in any order.
NextLedger ==
    \/ NewProcessor /\ UNCHANGED <<apiVars, interVars>>
    \/ \E p \in 1..MaxProcs : \E b \in LedgerBatches :
           ProcCleanData(p, b) /\ UNCHANGED <<apiVars, interVars>>
    \/ \E p \in 1..MaxProcs : ProcCalculateDerivedFeatures(p) /\ UNCHANGED <<apiVars, interVars>>
    \/ \E p \in 1..MaxProcs : ProcSaveToDatabase(p) /\ UNCHANGED <<apiVars, interVars>>
    \/ InsertVendor /\ UNCHANGED <<cleanVars, fileVars, instVars, apiVars, interVars>>
    \/ CommitVendors /\ UNCHANGED <<cleanVars, fileVars, instVars, apiVars, interVars>>
    \/ InsertZone /\ UNCHANGED <<cleanVars, fileVars, instVars, apiVars, interVars>>
    \/ CommitZones /\ UNCHANGED <<cleanVars, fileVars, instVars, apiVars, interVars>>
    \/ InsertTrip /\ UNCHANGED <<cleanVars, fileVars, instVars, apiVars, interVars>>
    \/ CommitTrips /\ UNCHANGED <<cleanVars, fileVars, instVars, apiVars, interVars>>
    \/ Fail /\ UNCHANGED <<cleanVars, fileVars, instVars, apiVars, interVars>>

SpecLedger == InitLoad /\ [][NextLedger]_vars

---------------------------------------------------------------------------
(* Claims about the cleaning run (SpecClean).                              *)

Cleaned == stage \in {"cleaned", "derived"}
InBox(lat, lon) ==
    /\ Le(lat_min, lat) /\ Le(lat, lat_max)
    /\ Le(lon_min, lon) /\ Le(lon, lon_max)
RowOfRaw(i) == \E k \in 1..Len(df) : df[k].index = raw[i].index
Ledger == {excluded_records[k] : k \in 1..Len(excluded_records)}

\* C1: every record that clean_data followed by calculate_derived_features
\* returns has dropoff after pickup, its four coordinates inside the box,
\* 60 <= trip_duration <= 21600, 1 <= passenger_count <= 6 and
\* 1 <= trip_speed_kmh <= 200, whatever the input batch carries.
C1_OutputRecordsValid ==
    stage = "derived" =>
        \A k \in 1..Len(df) :
            /\ Gt(df[k].dropoff_datetime, df[k].pickup_datetime)
            /\ InBox(df[k].pickup_latitude, df[k].pickup_longitude)
            /\ InBox(df[k].dropoff_latitude, df[k].dropoff_longitude)
            /\ Le(min_duration, df[k].trip_duration)
            /\ Le(df[k].trip_duration, max_duration)
            /\ Le(min_passengers, df[k].passenger_count)
            /\ Le(df[k].passenger_count, max_passengers)
            /\ Le(min_speed_kmh * 1000, df[k].trip_speed_kmh)
            /\ Le(df[k].trip_speed_kmh, max_speed_kmh * 1000)

\* C2: the cleaned output never holds two records of one identifier, and a
\* record that survives is the first of its identifier in the input.
C2_UniqueIdsFirstKept ==
    Cleaned =>
        /\ \A k, m \in 1..Len(df) : df[k].id = df[m].id => k = m
        /\ \A k \in 1..Len(df) : \A i \in 1..Len(raw) :
               raw[i].id = df[k].id => raw[i].index >= df[k].index

\* C2 happens: two input rows share an id and one of them survived.
C2_Witness ==
    /\ Cleaned
    /\ Len(raw) = 2 /\ raw[1].id = raw[2].id
    /\ Len(df) = 1 /\ df[1].index = 0

\* C3: every record a cleaning step dropped has its identifier in the
\* ledger.
C3_EveryDropInLedger ==
    Cleaned => \A i \in 1..Len(raw) : ~RowOfRaw(i) => raw[i].id \in Ledger

\* C14: in one cleaning run of a fresh DataProcessor no identifier is
\* appended to the ledger twice: a record leaves df with the step that
\* records it, and df holds every identifier once.
C14_NoIdTwiceInLedger ==
    stage \in {"cleaned", "derived", "error"} =>
        \A i, j \in 1..Len(excluded_records) :
            excluded_records[i] = excluded_records[j] => i = j

\* C14 happens: a record over the duration bound, which the speed bound
\* would reject as well, is in the ledger once, the run complete.
C14_Witness ==
    /\ stage = "derived" /\ Len(raw) = 2 /\ Len(df) = 1
    /\ raw[1].trip_duration = 21601
    /\ invalid_speed([raw[1] EXCEPT !.trip_speed_kmh = trip_speed(5420, 21601)])
    /\ excluded_records = <<raw[1].id>>

---------------------------------------------------------------------------
(* Claims about the derived features (SpecFeatures).                       *)

\* c cents is 2.50 + 1.50 * km + 0.50 * (s / 60) dollars rounded to the cent,
\* for a distance of m metres and a duration of s seconds: 60 * c is within
\* half a cent (30) of 60 * 250 + 9 * m + 50 * s.
IsRoundedFare(c, m, s) ==
    LET exact == 60 * 250 + 9 * m + 50 * s
    IN  60 * c - exact <= 30 /\ exact - 60 * c <= 30

\* C24: every cleaned record's fare_amount is
\* round(2.50 + 1.50 * trip_distance_km + 0.50 * (trip_duration / 60), 2)
\* of its own distance and duration (and missing when one of them is).
C24_FareFromOwnDistanceAndDuration ==
    stage = "derived" =>
        \A k \in 1..Len(df) :
            IF IsNa(df[k].trip_distance_km) \/ IsNa(df[k].trip_duration)
            THEN IsNa(df[k].fare_amount)
            ELSE /\ ~IsNa(df[k].fare_amount)
                 /\ IsRoundedFare(df[k].fare_amount, df[k].trip_distance_km,
                                  df[k].trip_duration)

\* C24 happens: two cleaned records of different distance have different
\* fares.
C24_Witness ==
    /\ stage = "derived" /\ Len(df) = 2
    /\ df[1].trip_distance_km # df[2].trip_distance_km
    /\ ~IsNa(df[1].fare_amount) /\ ~IsNa(df[2].fare_amount)
    /\ df[1].fare_amount # df[2].fare_amount

\* Bin b of the 20 equal bins over [mn, mx] holds x: the bins are closed on
\* the right, the first one holds mn, and a range of one value puts it in
\* the middle.
InBin(x, b, mn, mx) ==
    /\ b \in 0..(bins - 1)
    /\ IF mn = mx THEN b = (bins \div 2) - 1
       ELSE \/ x = mn /\ b = 0
            \/ /\ (x - mn) * bins > b * (mx - mn)
               /\ (x - mn) * bins <= (b + 1) * (mx - mn)
PickupLats == {df[i].pickup_latitude : i \in 1..Len(df)}
PickupLons == {df[i].pickup_longitude : i \in 1..Len(df)}
DropoffLats == {df[i].dropoff_latitude : i \in 1..Len(df)}
DropoffLons == {df[i].dropoff_longitude : i \in 1..Len(df)}

\* C25: the zone label of a point is the pair of its bins among 20 bins
\* between the minimum and the maximum of the latitudes, and of the
\* longitudes, of the series given to create_zones: it is a function of
\* the point and that series, not of the point alone.
C25_LabelsRelativeToBatch ==
    stage = "derived" =>
        \A k \in 1..Len(df) :
            /\ InBin(df[k].pickup_latitude, df[k].pickup_zone \div 100,
                     Min(PickupLats), Max(PickupLats))
            /\ InBin(df[k].pickup_longitude, df[k].pickup_zone % 100,
                     Min(PickupLons), Max(PickupLons))
            /\ InBin(df[k].dropoff_latitude, df[k].dropoff_zone \div 100,
                     Min(DropoffLats), Max(DropoffLats))
            /\ InBin(df[k].dropoff_longitude, df[k].dropoff_zone % 100,
                     Min(DropoffLons), Max(DropoffLons))

\* C25 happens: in a batch with two pickup points a point has a label other
\* than the one it has in the batch that holds this point alone.
C25_Witness ==
    /\ stage = "derived" /\ Len(df) = 2
    /\ \E k \in 1..Len(df) :
          /\ df[k].pickup_latitude = P1[1] /\ df[k].pickup_longitude = P1[2]
          /\ df[k].pickup_zone # create_zones(<<P1[1]>>, <<P1[2]>>)[1]

Column(d, f) == [i \in 1..Len(d) |-> d[i][f]]

\* C26: validator filters, then distance and speed, then the speed filter,
\* then fare and fare per km, then the zones: the derived frame comes from
\* the cleaned one, every record of it has passed the validator filters
\* and the speed filter, and its fares and its zone labels are those of
\* the records that passed all of them, bin edges included.
C26_DerivedOnlyFromSurvivors ==
    stage = "derived" =>
        /\ \A k \in 1..Len(df) :
              /\ ~invalid_datetime(df[k]) /\ ~invalid_coords(df[k])
              /\ ~invalid_duration(df[k]) /\ ~invalid_passengers(df[k])
              /\ ~invalid_speed(df[k])
              /\ df[k].trip_speed_kmh = trip_speed(df[k].trip_distance_km,
                                                    df[k].trip_duration)
              /\ df[k].fare_per_km = fare_per_km(df[k].fare_amount,
                                                  df[k].trip_distance_km)
        /\ Column(df, "pickup_zone")
              = create_zones(Column(df, "pickup_latitude"), Column(df, "pickup_longitude"))
        /\ Column(df, "dropoff_zone")
              = create_zones(Column(df, "dropoff_latitude"), Column(df, "dropoff_longitude"))

\* C26 happens: of two records the speed filter has removed the one that
\* ends where it starts, and the dropoff zone of the other is cut from its
\* own dropoff point alone.
C26_Witness ==
    /\ stage = "derived" /\ Len(raw) = 2 /\ Len(df) = 1
    /\ \E i \in 1..Len(raw) :
          /\ raw[i].id # df[1].id
          /\ raw[i].dropoff_latitude = raw[i].pickup_latitude
          /\ raw[i].dropoff_longitude = raw[i].pickup_longitude
          /\ raw[i].dropoff_latitude # df[1].dropoff_latitude
          /\ raw[i].id = excluded_records[Len(excluded_records)]
    /\ df[1].dropoff_zone = ZoneLabel((bins \div 2) - 1, (bins \div 2) - 1)

\* C27: fare_per_km is never a division by zero: every record for which it
\* is computed has trip_distance_km > 0, a record with identical pickup and
\* dropoff points having been removed by the speed filter.
C27_FareRowsHavePositiveDistance ==
    stage = "derived" => \A k \in 1..Len(df) : Gt(df[k].trip_distance_km, 0)

\* The same for the records that carry a trip_duration; and a record of
\* distance 0 that carries one is not in the derived frame.
C27_PositiveDistanceWhenDurationPresent ==
    stage = "derived" =>
        /\ \A k \in 1..Len(df) :
              ~IsNa(df[k].trip_duration) => Gt(df[k].trip_distance_km, 0)
        /\ \A i \in 1..Len(raw) :
              (~IsNa(raw[i].trip_duration)
                 /\ raw[i].pickup_latitude = raw[i].dropoff_latitude
                 /\ raw[i].pickup_longitude = raw[i].dropoff_longitude)
              => ~RowOfRaw(i)

---------------------------------------------------------------------------
(* Claims about the order of the validator filters (SpecOrder).            *)

\* The six validator filters as steps on a frame whose datetime columns
\* are converted (a missing or unreadable text gives NaT): 1 duplicate ids,
\* 2 missing fields, 3 temporal validity, 4 geofencing, 5 duration bounds,
\* 6 passenger bounds.
ConvertedAll(d) ==
    [i \in 1..Len(d) |->
        [d[i] EXCEPT
            !.pickup_datetime  = IF IsNa(@) \/ ~Parses(@) THEN NaN ELSE ToDatetime(@),
            !.dropoff_datetime = IF IsNa(@) \/ ~Parses(@) THEN NaN ELSE ToDatetime(@)]]
FilterStep(k, d) ==
    CASE k = 1 -> DropDuplicates(d)
      [] k = 2 -> DropNa(d)
      [] k = 3 -> Exclude(<<d, <<>>>>, DatetimeMask(d))[1]
      [] k = 4 -> Exclude(<<d, <<>>>>, CoordsMask(d))[1]
      [] k = 5 -> Exclude(<<d, <<>>>>, DurationMask(d))[1]
      [] k = 6 -> Exclude(<<d, <<>>>>, PassengerMask(d))[1]
RECURSIVE FilterSteps(_, _)
FilterSteps(order, d) ==
    IF order = <<>> THEN d ELSE FilterSteps(Tail(order), FilterStep(Head(order), d))
Survivors(order) ==
    LET d == FilterSteps(order, ConvertedAll(raw)) IN {d[i].index : i \in 1..Len(d)}
Orders(S) == {o \in [1..Cardinality(S) -> S] : \A i, j \in 1..Cardinality(S) : o[i] = o[j] => i = j}
AllOrders == Orders(1..6)
DuplicatesFirstOrders == {<<1>> \o o : o \in Orders(2..6)}
Kept == {df[k].index : k \in 1..Len(df)}

\* C13 as stated: whatever the order of the six filters, the surviving
\* records are those clean_data returns.
C13_AnyOrderSameSurvivors ==
    stage = "cleaned" => \A o \in AllOrders : Survivors(o) = Kept

\* C13 amended: with the duplicate-id filter first, whatever the order of
\* the five other filters, the surviving records are those clean_data
\* returns.
C13_PredicateFiltersCommute ==
    stage = "cleaned" => \A o \in DuplicatesFirstOrders : Survivors(o) = Kept

\* C13 happens: of two rows one is dropped for a missing cell or a bound
\* that another order tests at another moment, and one is kept.
C13_Witness ==
    /\ stage = "cleaned" /\ Len(raw) = 2 /\ Len(df) = 1
    /\ raw[1].id # raw[2].id
    /\ \E i \in 1..2 : HasMissing(raw[i]) \/ invalid_duration(raw[i])

---------------------------------------------------------------------------
(* Claims about the validator on complete batches (SpecValidator).         *)

DistinctIds(d) == \A i, j \in 1..Len(d) : d[i].id = d[j].id => i = j
NoMissingCell(d) ==
    \A i \in 1..Len(d) :
        ~HasMissing(d[i]) /\ ~IsNa(d[i].trip_duration) /\ ~IsNa(d[i].passenger_count)
\* A raw record that no filter of the validator is to drop.
PassesAll(r) ==
    /\ ToDatetime(r.dropoff_datetime) > ToDatetime(r.pickup_datetime)
    /\ r.pickup_latitude >= lat_min /\ r.pickup_latitude <= lat_max
    /\ r.pickup_longitude >= lon_min /\ r.pickup_longitude <= lon_max
    /\ r.dropoff_latitude >= lat_min /\ r.dropoff_latitude <= lat_max
    /\ r.dropoff_longitude >= lon_min /\ r.dropoff_longitude <= lon_max
    /\ r.trip_duration >= min_duration /\ r.trip_duration <= max_duration
    /\ r.passenger_count >= min_passengers /\ r.passenger_count <= max_passengers

\* C16: on a batch of distinct ids without a missing cell, clean_data
\* returns the rows that pass every filter and no other, and the ledger
\* gains the id of every failing row, once, and nothing else.
C16_ValidatorExact ==
    (stage = "cleaned" /\ DistinctIds(raw) /\ NoMissingCell(raw)) =>
        /\ {df[k].index : k \in 1..Len(df)}
              = {raw[i].index : i \in {j \in 1..Len(raw) : PassesAll(raw[j])}}
        /\ {excluded_records[k] : k \in 1..Len(excluded_records)}
              = {raw[i].id : i \in {j \in 1..Len(raw) : ~PassesAll(raw[j])}}
        /\ Len(excluded_records) + Len(df) = Len(raw)

\* C16 happens: of three otherwise valid records the third has its dropoff
\* before its pickup; two records remain and the ledger holds the third id.
C16_Witness ==
    /\ stage = "cleaned" /\ Len(raw) = 3 /\ DistinctIds(raw) /\ NoMissingCell(raw)
    /\ PassesAll(raw[1]) /\ PassesAll(raw[2])
    /\ ToDatetime(raw[3].dropoff_datetime) < ToDatetime(raw[3].pickup_datetime)
    /\ Len(df) = 2 /\ excluded_records = <<raw[3].id>>

---------------------------------------------------------------------------
(* Claims about load calls (SpecLoad).                                     *)

VendorIds(store) == {v.vendor_id : v \in store.vendors}
ZoneIds(store)   == {z.id : z \in store.zones}
BatchVendors     == {batch[i].vendor_id : i \in 1..Len(batch)} \ {NaN}
ZonesPassed      == lpc \in {"trips", "commit", "done"}
                        \/ (lpc = "failed" /\ hist.failedIn = "trips")

\* C4 as stated: every persisted trip's vendor_id is the vendor_id of a
\* vendors row and both its zone references are ids of zones rows.
C4_ReferencesResolve ==
    \A t \in db.trips :
        /\ t.vendor_id \in VendorIds(db)
        /\ t.pickup_zone_id \in ZoneIds(db)
        /\ t.dropoff_zone_id \in ZoneIds(db)

\* C4 amended: every persisted trip's vendor_id, pickup_zone_id and
\* dropoff_zone_id is null or names an existing vendors / zones row.
C4_NonNullReferencesResolve ==
    \A t \in db.trips :
        /\ IsNa(t.vendor_id) \/ t.vendor_id \in VendorIds(db)
        /\ IsNa(t.pickup_zone_id) \/ t.pickup_zone_id \in ZoneIds(db)
        /\ IsNa(t.dropoff_zone_id) \/ t.dropoff_zone_id \in ZoneIds(db)

\* C4 happens: after a second load call a trip of the first one still
\* refers to a vendor and to two zones.
C4_Witness ==
    /\ loads = 2 /\ lpc = "done"
    /\ \E t \in db.trips : \E u \in hist.start.trips :
          /\ t.id = u.id /\ ~IsNa(t.vendor_id)
          /\ ~IsNa(t.pickup_zone_id) /\ ~IsNa(t.dropoff_zone_id)
    /\ all_zones(batch) # {}

\* C5: a load call that completes right after a completed load call of the
\* same batch leaves the store as it found it: no new vendor, zone or trip
\* row, no changed row.
C5_SecondLoadChangesNothing ==
    (lpc = "done" /\ hist.repeat) => db = hist.start

\* C5 happens: the same two-row batch was loaded twice.
C5_Witness ==
    /\ lpc = "done" /\ hist.repeat /\ loads = 2
    /\ Len(batch) = 2 /\ Cardinality(db.trips) = 2 /\ db.zones # {}

\* C6: once a load call has committed its zones, every zone of its batch
\* holds the latitude, longitude and trip_count computed from that batch
\* alone and the id it had before, and every other zone row is as before.
C6_ZonesReplaced ==
    ZonesPassed =>
        /\ \A z \in all_zones(batch) : \E x \in db.zones :
              /\ x.zone_name = z
              /\ x.latitude = avg_lat(batch, z) /\ x.longitude = avg_lon(batch, z)
              /\ x.trip_count = trip_count(batch, z)
              /\ \A o \in hist.start.zones : o.zone_name = z => o.id = x.id
        /\ \A o \in hist.start.zones : o.zone_name \notin all_zones(batch) => o \in db.zones
        /\ \A x \in db.zones : x.zone_name \notin all_zones(batch) => x \in hist.start.zones

\* C6 happens: the second batch rewrote a zone of the first with other
\* values and left another zone of the first alone.
C6_Witness ==
    /\ loads = 2 /\ lpc = "done"
    /\ \E o \in hist.start.zones : \E x \in db.zones :
          o.zone_name = x.zone_name /\ o.id = x.id /\ o.latitude # x.latitude
              /\ o.trip_count # x.trip_count
    /\ \E o \in hist.start.zones : o.zone_name \notin all_zones(batch)

\* C7: vendors, zones, trips in this order: when a zone is written the
\* vendors of the batch are committed, when a zone is looked up or a trip is
\* inserted the zones of the batch are committed too, and no zone or trip is
\* written in an earlier phase.
C7_PhasesOrdered ==
    /\ lpc \in {"zones", "trips", "commit"} => BatchVendors \subseteq VendorIds(db)
    /\ lpc \in {"trips", "commit"} =>
          \A z \in all_zones(batch) : \E x \in db.zones : x.zone_name = z
    /\ lpc = "vendors" => tx.zones = db.zones /\ tx.trips = db.trips
    /\ lpc = "zones" => tx.trips = db.trips

\* C7 happens: a trip was inserted, not yet committed, its vendor and zones
\* written by this very call.
C7_Witness ==
    /\ lpc = "commit" /\ tx.trips # db.trips
    /\ hist.start = EmptyStore /\ db.vendors # {} /\ db.zones # {}

\* C8: when the trips phase fails, the vendors and zones the call wrote in
\* its first two phases are in the store.
C8_EarlierPhasesDurable ==
    (lpc = "failed" /\ hist.failedIn = "trips") =>
        /\ BatchVendors \subseteq VendorIds(db)
        /\ \A z \in all_zones(batch) : \E x \in db.zones :
              x.zone_name = z /\ x.latitude = avg_lat(batch, z)
                  /\ x.trip_count = trip_count(batch, z)

\* C8 happens: the trips phase failed in a call that found the store empty.
C8_Witness ==
    /\ lpc = "failed" /\ hist.failedIn = "trips"
    /\ hist.start = EmptyStore /\ db.vendors # {} /\ db.zones # {}

\* C9: after a failed load call the store holds what the call had committed
\* and nothing else, nothing is pending, and no phase after the failing one
\* has written.
C9_FailureRollsBack ==
    lpc = "failed" =>
        /\ db = hist.committed /\ tx = db
        /\ hist.failedIn = "vendors" => db = hist.start
        /\ hist.failedIn = "zones" =>
              db.zones = hist.start.zones /\ db.trips = hist.start.trips
        /\ hist.failedIn \in {"vendors", "zones"} => pos = 0

\* C9 happens: a call failed in its zones phase with a zone written and not
\* committed, after committing a vendor.
C9_Witness ==
    /\ lpc = "failed" /\ hist.failedIn = "zones"
    /\ ztodo # all_zones(batch) /\ db.vendors # hist.start.vendors

\* A zone label of record r that the lookup of the row loop does not resolve.
ZoneMiss(r) ==
    IsNa(zone_id(tx.zones, r.pickup_zone)) \/ IsNa(zone_id(tx.zones, r.dropoff_zone))
TripOf(store, id) == CHOOSE t \in store.trips : t.id = id
TripIds(store) == {t.id : t \in store.trips}

\* C11: a zone label that is missing or has no zones row does not raise: the
\* INSERT of such a row is possible whenever its integer cells are, the row
\* is inserted with that reference null, and the call goes on to the rows
\* after it, a completed call having every id of its batch in the store.
C11_ZoneMissInsertsNull ==
    /\ (lpc = "trips" /\ pos < Len(batch) /\ ZoneMiss(batch[pos + 1])
            /\ IntegerCellsOk(loader, batch[pos + 1])) => ENABLED InsertTrip
    /\ lpc \in {"trips", "commit", "done"} =>
          \A i \in 1..pos :
              /\ batch[i].id \in TripIds(tx)
              /\ batch[i].id \notin TripIds(hist.start) =>
                    /\ TripOf(tx, batch[i].id).pickup_zone_id
                           = zone_id(tx.zones, batch[i].pickup_zone)
                    /\ TripOf(tx, batch[i].id).dropoff_zone_id
                           = zone_id(tx.zones, batch[i].dropoff_zone)
    /\ lpc = "done" => pos = Len(batch) /\ \A i \in 1..Len(batch) : batch[i].id \in TripIds(db)

\* C11 happens: a completed call stored a first row without pickup zone with
\* a null reference, and the row after it too.
C11_Witness ==
    /\ lpc = "done" /\ Len(batch) = 2 /\ hist.start = EmptyStore
    /\ IsNa(batch[1].pickup_zone) /\ ~IsNa(batch[2].pickup_zone)
    /\ IsNa(TripOf(db, batch[1].id).pickup_zone_id)
    /\ ~IsNa(TripOf(db, batch[1].id).dropoff_zone_id)
    /\ batch[2].id \in TripIds(db)

\* The coordinates of batch b that are mapped to zone z: the pickup point of
\* a row whose pickup_zone is z and the dropoff point of a row whose
\* dropoff_zone is z.
OwnCount(b, z) ==
    SumSeq([i \in 1..Len(b) |-> (IF b[i].pickup_zone = z THEN 1 ELSE 0)
                                 + (IF b[i].dropoff_zone = z THEN 1 ELSE 0)])
OwnLatMean(b, z) ==
    Decimal7(SumSeq([i \in 1..Len(b) |->
                        (IF b[i].pickup_zone = z THEN b[i].pickup_latitude ELSE 0)
                      + (IF b[i].dropoff_zone = z THEN b[i].dropoff_latitude ELSE 0)]),
             OwnCount(b, z))
OwnLonMean(b, z) ==
    Decimal7(SumSeq([i \in 1..Len(b) |->
                        (IF b[i].pickup_zone = z THEN b[i].pickup_longitude ELSE 0)
                      + (IF b[i].dropoff_zone = z THEN b[i].dropoff_longitude ELSE 0)]),
             OwnCount(b, z))
Referencing(b, z) ==
    Cardinality({i \in 1..Len(b) : b[i].pickup_zone = z \/ b[i].dropoff_zone = z})

\* C21: after a load, each zone row of the batch has as latitude and
\* longitude the mean of exactly the pickup and dropoff coordinates of the
\* batch mapped to that zone (an endpoint labelled with another zone does
\* not contribute), and as trip_count the number of batch records that
\* reference the zone by pickup or dropoff.
C21_ZoneMeanOfOwnCoordinates ==
    lpc = "done" =>
        \A z \in all_zones(batch) : \E x \in db.zones :
            /\ x.zone_name = z
            /\ x.latitude = OwnLatMean(batch, z) /\ x.longitude = OwnLonMean(batch, z)
            /\ x.trip_count = Referencing(batch, z)

\* The trip_count half of C21.
C21_TripCountOfReferencingRecords ==
    lpc = "done" =>
        \A z \in all_zones(batch) : \E x \in db.zones :
            x.zone_name = z /\ x.trip_count = Referencing(batch, z)

\* The mean half of C21 for the zones whose referencing records have both
\* endpoints in the zone.
C21_MeanExactWhenBothEndpointsInZone ==
    lpc = "done" =>
        \A z \in all_zones(batch) :
            (\A i \in 1..Len(batch) :
                 (batch[i].pickup_zone = z \/ batch[i].dropoff_zone = z)
                     => (batch[i].pickup_zone = z /\ batch[i].dropoff_zone = z))
            => \E x \in db.zones :
                  /\ x.zone_name = z
                  /\ x.latitude = OwnLatMean(batch, z)
                  /\ x.longitude = OwnLonMean(batch, z)

\* C22: after any sequence of load calls the vendors table holds one row
\* per distinct vendor id of the batches loaded, named "Vendor_" followed by
\* the integer id, whichever loader wrote it, and a row once there is never
\* modified by a later load.
C22_VendorsNamedByIntegerId ==
    /\ \A x \in db.vendors : x.vendor_name = VendorName(x.vendor_id, FALSE)
    /\ \A x, y \in db.vendors : x.vendor_id = y.vendor_id => x = y
    /\ \A o \in hist.start.vendors : o \in db.vendors
    /\ lpc \in {"zones", "trips", "commit", "done"} =>
          \A i \in 1..Len(batch) :
              IsNa(batch[i].vendor_id) \/ \E x \in db.vendors : x.vendor_id = batch[i].vendor_id

\* All of C22 but the name.
C22_OneRowPerVendorNeverModified ==
    /\ \A x, y \in db.vendors : x.vendor_id = y.vendor_id => x = y
    /\ \A o \in hist.start.vendors : o \in db.vendors
    /\ lpc \in {"zones", "trips", "commit", "done"} =>
          \A i \in 1..Len(batch) :
              IsNa(batch[i].vendor_id) \/ \E x \in db.vendors : x.vendor_id = batch[i].vendor_id

\* C23: INSERT ... ON CONFLICT (id) DO NOTHING: no step of any load call,
\* failed or not, removes a persisted trip or changes one of its fields or
\* its vendor and zone references, whatever a later batch carries for the
\* same id.
C23_PersistedTripsKept == [][db.trips \subseteq db'.trips]_vars

\* C23 happens: a second call has completed with a record of an id that was
\* in the store, with another pickup point and another vendor, and the
\* stored trip is the one of the first call.
C23_Witness ==
    /\ loads = 2 /\ lpc = "done"
    /\ \E i \in 1..Len(batch) :
          /\ batch[i].id \in TripIds(hist.start)
          /\ TripOf(db, batch[i].id) = TripOf(hist.start, batch[i].id)
          /\ TripOf(db, batch[i].id).pickup_latitude # batch[i].pickup_latitude
          /\ TripOf(db, batch[i].id).vendor_id # batch[i].vendor_id
          /\ TripOf(db, batch[i].id).dropoff_zone_id
                 # zone_id(db.zones, batch[i].dropoff_zone)

---------------------------------------------------------------------------
(* Claims about the top-level calls (SpecPipeline).                        *)

CalledLast(name) == call.name = name /\ call.outcome # "running"

\* C12: when train.csv cannot be read, or a datetime text of it cannot be
\* parsed, clean_all_data_and_save raises and leaves the snapshot file, the
\* ledger file and the ledger of the instance as it found them.
C12_SourceErrorWritesNothing ==
    (CalledLast("clean_all_data_and_save")
        /\ (~call.pre.source_ok \/ ~DatetimesParse(Deduped(raw)))) =>
        /\ call.outcome = "raised"
        /\ cleaned_file = call.pre.cleaned_file
        /\ ledger_file = call.pre.ledger_file
        /\ excluded_records = call.pre.excluded_records

\* C12 happens: a run that wrote both files and filled the ledger is
\* followed by a run that cannot read the source.
C12_Witness ==
    /\ CalledLast("clean_all_data_and_save") /\ ~call.pre.source_ok
    /\ call.outcome = "raised" /\ call.at = "load_data"
    /\ cleaned_file.exists /\ cleaned_file.rows # <<>>
    /\ ledger_file.exists /\ excluded_records # <<>>

\* C28: for every input batch, one whose records are all excluded
\* included, clean_all_data_and_save (load_data, clean_data,
\* calculate_derived_features) completes without error and produces the
\* cleaned set, possibly empty, and the ledger.
C28_CleaningRunCompletes ==
    (CalledLast("clean_all_data_and_save") /\ call.pre.source_ok) =>
        /\ call.outcome = "returned"
        /\ stage = "derived"
        /\ cleaned_file = [exists |-> TRUE, rows |-> WriteCsv(df)]

\* The run completes whenever the datetimes parse and a record is left
\* after the speed filter, and raises in calculate_derived_features exactly
\* when none is.
C28_CompletesWhenARecordIsLeft ==
    (CalledLast("clean_all_data_and_save") /\ call.pre.source_ok
        /\ DatetimesParse(Deduped(raw))) =>
        LET w == WithDistanceSpeed(clean_data(raw, <<>>)[2])
            left == \E k \in 1..Len(w) : ~invalid_speed(w[k])
        IN  IF left
            THEN /\ call.outcome = "returned" /\ stage = "derived" /\ df # <<>>
                 /\ cleaned_file = [exists |-> TRUE, rows |-> WriteCsv(df)]
            ELSE /\ call.outcome = "raised" /\ call.at = "calculate_derived_features"
                 /\ cleaned_file = call.pre.cleaned_file

---------------------------------------------------------------------------
(* Claims about the ledgers of several instances (SpecLedger).             *)

IsPrefix(a, b) == Len(a) <= Len(b) /\ SubSeq(b, 1, Len(a)) = a

\* C15: a new DataProcessor starts with an empty ledger; whatever is called
\* on whichever instance (clean_data, calculate_derived_features,
\* save_to_database and its steps), the ledger of every instance before the
\* step is a prefix of its ledger after it, only the ledger of the instance
\* that was called changes, and the other attributes of every instance stay
\* as they are.
C15_LedgerInstanceScoped ==
    [][ /\ Len(procs') >= Len(procs)
        /\ Len(procs') > Len(procs) => heap'[procs'[Len(procs')].excluded_records] = <<>>
        /\ \A p \in 1..Len(procs) :
              /\ procs'[p] = procs[p]
              /\ IsPrefix(LedgerOf(p), heap'[procs'[p].excluded_records])
              /\ (call'.n = call.n \/ call'.at # p) =>
                    heap'[procs'[p].excluded_records] = LedgerOf(p)
      ]_vars

\* C15 happens: of two instances one has recorded an id in each of two
\* calls and the other a different id in one call.
C15_Witness ==
    /\ Len(procs) = 2 /\ call.n >= 3
    /\ Len(LedgerOf(1)) = 2 /\ Len(LedgerOf(2)) = 1
    /\ LedgerOf(2)[1] # LedgerOf(1)[1]

---------------------------------------------------------------------------
(* Claims about application start and database setup (SpecStartup).        *)

TripValid(t) ==
    /\ Gt(t.dropoff_datetime, t.pickup_datetime)
    /\ InBox(t.pickup_latitude, t.pickup_longitude)
    /\ InBox(t.dropoff_latitude, t.dropoff_longitude)
    /\ Le(min_duration, t.trip_duration) /\ Le(t.trip_duration, max_duration)
    /\ Le(min_passengers, t.passenger_count) /\ Le(t.passenger_count, max_passengers)
    /\ Le(min_speed_kmh * 1000, t.trip_speed_kmh)
    /\ Le(t.trip_speed_kmh, max_speed_kmh * 1000)

\* C17: after any sequence of cleaning runs and load calls, directly or
\* through the snapshot file, every persisted trip has dropoff after
\* pickup, 60 <= trip_duration <= 21600, 1 <= passenger_count <= 6,
\* 1 <= trip_speed_kmh <= 200 and all coordinates inside the box.
C17_PersistedTripsValid == \A t \in db.trips : TripValid(t)

\* The persisted trips that carry a passenger_count are valid: the only
\* invalid trips are those the cleaning let through with the cell missing.
C17_ValidUnlessCellMissing ==
    \A t \in db.trips : ~IsNa(t.passenger_count) => TripValid(t)

\* C17's case happens: a load through the snapshot has persisted a trip.
C17_TripPersistedFromSnapshot ==
    /\ call.name = "insert_cleaned_csv" /\ call.outcome = "returned"
    /\ db.trips # {}

\* process_data_if_needed has gone past its check: it has read a file, or
\* tried to.
PastCheck == call.at \notin {"skip", "check_data_exists"}

\* C18: a call of process_data_if_needed that finds at least one trip in
\* the store reads no source file, writes nothing to vendors, zones or
\* trips and leaves the ledger as it was.
C18_WritesOnlyWhenTripsEmpty ==
    (call.name = "process_data_if_needed" /\ call.pre.db.trips # {}) =>
        /\ ~PastCheck
        /\ db = call.pre.db /\ tx = db /\ seq = call.pre.seq
        /\ excluded_records = call.pre.excluded_records
        /\ ledger_file = call.pre.ledger_file

\* The same for the calls whose COUNT query on trips ran without error.
C18_HoldsWhenCheckAnswers ==
    call.check # "query_fails" => C18_WritesOnlyWhenTripsEmpty

\* C18's case happens: the call found a trip, its check answered, and it
\* returned at once.
C18_SkippedOnExistingTrips ==
    /\ call.name = "process_data_if_needed" /\ call.pre.db.trips # {}
    /\ call.check = "ok" /\ call.outcome = "returned" /\ call.at = "skip"

---------------------------------------------------------------------------
(* Claims about the analytics API (SpecApi).                               *)

Answered == response.endpoint # "none"

\* C19: whatever fails while a request is served (connection, query,
\* malformed parameter, empty tables), the response has status 500 and the
\* endpoint's fixed generic error body, and nothing else.
C19_FailureGivesGenericBody ==
    (Answered /\ response.status # 200) =>
        response.status = 500 /\ response.body = ErrorBody(response.endpoint)

\* The same for the failures after the connection is open.
C19_GenericBodyOnceConnected ==
    response.fault # "connect" => C19_FailureGivesGenericBody

\* A failure inside the try has happened and was answered.
C19_FailedInsideTry ==
    Answered /\ response.fault = "none" /\ response.params = "ok"
    /\ response.status = 500 /\ db.trips = {}

\* C20: a step that serves a request leaves vendors, zones and trips as
\* they were, whatever the endpoint and the parameters.
C20_RequestsLeaveStore ==
    [][response' # response => db' = db /\ tx' = tx /\ seq' = seq]_vars

\* C20's case happens: a request has been answered with data from a store
\* that holds a vendor, zones and a trip.
C20_ServedFromLoadedStore ==
    /\ Answered /\ response.status = 200
    /\ db.vendors # {} /\ db.zones # {} /\ db.trips # {}

---------------------------------------------------------------------------
(* Claims about the interactive load (SpecInteractive, FairInteractive).   *)

Ended == session.pc \in {"returned", "raised"}

\* The first n frames handed to save_to_database hold this many rows.
RECURSIVE RowsPassed(_)
RowsPassed(n) == IF n = 0 THEN 0 ELSE RowsPassed(n - 1) + session.passed[n][2]

LastAnswer == session.answers[Len(session.answers)]

\* input() was answered with this after a batch.
Gave(a) ==
    \E k \in 1..Len(session.answers) : session.answers[k] = a

\* C29: process_data_interactive terminates whatever the cleaned file, the
\* batch size and the answers are: the call returns or raises; after the
\* answer 'q' nothing more is loaded and after 'a' at most one more frame
\* is; and the loop is entered at most once more than the file has rows.
C29_InteractiveTerminates ==
    /\ <>Ended
    /\ []((session.pc \in {"saving_all", "returned"} /\ Gave("q")) =>
            /\ session.pc = "returned" /\ LastAnswer = "q"
            /\ RowsPassed(Len(session.passed)) = session.total_processed)
    /\ []((session.answers # <<>> /\ LastAnswer = "a") =>
            /\ session.pc \in {"saving_all", "returned", "raised"}
            /\ RowsPassed(Len(session.passed) - 1) <= session.total_processed)
    /\ [](session.pc = "loop" =>
            /\ Len(session.passed) <= Len(cleaned_file.rows)
            /\ Len(session.passed) <= MaxInterRows)

\* Enter was answered after every batch of a file of MaxInterRows rows and
\* the call returned once the count reached the rows of the file.
C29_Witness ==
    /\ session.pc = "returned" /\ session.batch_size = 1
    /\ ~Gave("q") /\ ~Gave("a")
    /\ Len(session.answers) = MaxInterRows
    /\ Len(cleaned_file.rows) = MaxInterRows
    /\ session.returned = MaxInterRows

\* C30: the frames handed to save_to_database are consecutive row ranges
\* of the cleaned file from row 0 on, none empty; the returned total is
\* the number of rows handed over; and a call that returns without the
\* answer 'q' has handed over every row of the cleaned file.
C30_EveryRowLoadedUnlessQuit ==
    /\ \A k \in 1..Len(session.passed) :
          /\ session.passed[k][1] = RowsPassed(k - 1)
          /\ session.passed[k][2] >= 1
          /\ session.passed[k][1] + session.passed[k][2] <= Len(cleaned_file.rows)
    /\ session.pc = "returned" =>
          session.returned = RowsPassed(Len(session.passed))
    /\ (session.pc = "returned" /\ ~Gave("q") /\ ~Gave("n")) =>
          RowsPassed(Len(session.passed)) = Len(cleaned_file.rows)

\* C30: the frames are consecutive row ranges from row 0 on and the
\* returned total is the number of rows handed over.
C30_ConsecutiveRangesAndTotal ==
    /\ \A k \in 1..Len(session.passed) :
          /\ session.passed[k][1] = RowsPassed(k - 1)
          /\ session.passed[k][2] >= 1
          /\ session.passed[k][1] + session.passed[k][2] <= Len(cleaned_file.rows)
    /\ session.pc = "returned" =>
          session.returned = RowsPassed(Len(session.passed))

\* C30: every row is handed over when Enter is answered throughout, or when
\* the file has no more rows than load_cleaned_data reads by default; after
\* 'a' on a longer file the rows beyond that are left out.
C30_AllRowsWithinDefaultLimit ==
    (session.pc = "returned" /\ ~Gave("q") /\ ~Gave("n")) =>
        \/ RowsPassed(Len(session.passed)) = Len(cleaned_file.rows)
        \/ /\ Gave("a") /\ Len(cleaned_file.rows) > max_records
           /\ RowsPassed(Len(session.passed)) >= max_records

---------------------------------------------------------------------------
(* Claims about chunked commits (SpecChunk).                               *)

\* Rows of the chunks that were complete when the trips phase failed.
RowsOfCompletedChunks ==
    IF hist.failedAt = "commit" THEN batch_size * ((pos - 1) \div batch_size)
    ELSE batch_size * (pos \div batch_size)

\* C10: in both loaders, when the trips phase fails the trips of every
\* chunk of batch_size rows completed before the failure are in the store;
\* only the chunk in progress is lost.
C10_OnlyOpenChunkLost ==
    (lpc = "failed" /\ hist.failedIn = "trips") =>
        \A i \in 1..RowsOfCompletedChunks : \E t \in db.trips : t.id = batch[i].id

\* The same for DataProcessor.insert_trips alone.
C10_ProcessorKeepsCompletedChunks ==
    loader = "processor" => C10_OnlyOpenChunkLost

====
